---- MODULE Spec2Model ----
(***************************************************************************)
(* Verification model of schema-gen: the TypeMapper front end, the         *)
(* Universal Schema Representation (USR) and the generator contract.       *)
(*                                                                         *)
(* A native type declaration is a tree (TypeExpr); the TypeMapper turns it *)
(* into a USRField tree; a USRSchema holds fields and variants; backends   *)
(* render a schema.  Python values that may be None are sequences of       *)
(* length 0 (None) or 1.  Exceptions are outcomes [raised |-> TRUE, ...].  *)
(*                                                                         *)
(* Python semantics assumed: CPython 3.10 - 3.13, where `X | Y` of classes *)
(* is a types.UnionType whose typing.get_origin is types.UnionType, not    *)
(* typing.Union.                                                           *)
(***************************************************************************)
EXTENDS Integers, Sequences, FiniteSets, TLC

\* ------------------------------------------------------------------ bounds
MaxDepth == 2     \* nesting depth of generated type declarations
MaxFields == 3    \* fields of a hand-built schema

\* ------------------------------------------------------- FieldType (enum)
FT_STRING == "string"
FT_INTEGER == "integer"
FT_FLOAT == "float"
FT_BOOLEAN == "boolean"
FT_DATETIME == "datetime"
FT_DATE == "date"
FT_TIME == "time"
FT_UUID == "uuid"
FT_DECIMAL == "decimal"
FT_JSON == "json"
FT_BYTES == "bytes"
FT_LIST == "list"
FT_SET == "set"
FT_FROZENSET == "frozenset"
FT_TUPLE == "tuple"
FT_DICT == "dict"
FT_UNION == "union"
FT_OPTIONAL == "optional"
FT_LITERAL == "literal"
FT_ENUM == "enum"
FT_NESTED_SCHEMA == "nested_schema"

FieldType ==
  {FT_STRING, FT_INTEGER, FT_FLOAT, FT_BOOLEAN, FT_DATETIME, FT_DATE, FT_TIME, FT_UUID, FT_DECIMAL, FT_JSON,
   FT_BYTES, FT_LIST, FT_SET, FT_FROZENSET, FT_TUPLE, FT_DICT, FT_UNION, FT_OPTIONAL, FT_LITERAL, FT_ENUM,
   FT_NESTED_SCHEMA}

NUMERIC_TYPES == {FT_INTEGER, FT_FLOAT, FT_DECIMAL}

STRING_LIKE_TYPES == {FT_STRING, FT_LIST, FT_SET, FT_FROZENSET, FT_BYTES}

\* ------------------------------------------- native type declarations
\* k   : kind of the Python object
\*         "builtin"   a class that is a key of TypeMapper._type_mapping
\*         "std"       datetime.datetime/date/time, uuid.UUID, decimal.Decimal
\*         "none"      type(None)
\*         "class"     any other class (a declared schema, object, ...)
\*         "enum"      a subclass of enum.Enum
\*         "str"       a string forward reference
\*         "fwdref"    typing.ForwardRef (what typing makes of a string argument)
\*         "ellipsis"  the variadic marker ...
\*         "generic"   a parametrized list/set/frozenset/tuple/dict (nm = origin)
\*         "union"     nm = "typing" (typing.Union) or "pipe" (types.UnionType)
\*         "literal"   typing.Literal[vals]
\*         "annotated" typing.Annotated[args[1], meta...]
\* nm   : class name / origin / spelling        args : type parameters
\* vals : literal values or enum member values  meta : Annotated metadata items
TE(k, nm, args, vals, meta) ==
  [k |-> k, nm |-> nm, args |-> args, vals |-> vals, meta |-> meta]

Builtin(nm) == TE("builtin", nm, <<>>, <<>>, <<>>)
Std(nm) == TE("std", nm, <<>>, <<>>, <<>>)
NoneType == TE("none", "NoneType", <<>>, <<>>, <<>>)
Class(nm) == TE("class", nm, <<>>, <<>>, <<>>)
EnumClass(nm, vals) == TE("enum", nm, <<>>, vals, <<>>)
Str(nm) == TE("str", nm, <<>>, <<>>, <<>>)
FwdRef(nm) == TE("fwdref", nm, <<>>, <<>>, <<>>)
Ellipsis == TE("ellipsis", "Ellipsis", <<>>, <<>>, <<>>)
Generic(origin, args) == TE("generic", origin, args, <<>>, <<>>)
TypingUnion(args) == TE("union", "typing", args, <<>>, <<>>)
PipeUnion(args) == TE("union", "pipe", args, <<>>, <<>>)
Literal(vals) == TE("literal", "Literal", <<>>, vals, <<>>)
Annotated(base, meta) == TE("annotated", "Annotated", <<base>>, <<>>, meta)

\* Annotated metadata items: a plain text, a one-entry map, or an object
\* exposing one constraint attribute (attr "ge"/"le"/... with a number, or
\* "pattern"/"regex" with a text).
TextItem(s) == [mk |-> "text", key |-> "", sval |-> s, ival |-> 0]
MapItem(key, s) == [mk |-> "map", key |-> key, sval |-> s, ival |-> 0]
NumAttrItem(attr, n) == [mk |-> "obj", key |-> attr, sval |-> "", ival |-> n]
TextAttrItem(attr, s) == [mk |-> "obj", key |-> attr, sval |-> s, ival |-> 0]

\* Value tokens of a Literal; UnhashableValue stands for a list value such
\* as Literal[[1]].
UnhashableValue == "[1]"

\* ------------------------------------------- Python object semantics
RECURSIVE Hashable(_)
\* hash(t): the membership test `python_type in cls._type_mapping` hashes its
\* operand; a dict/list inside Annotated metadata or Literal values makes the
\* enclosing typing object unhashable (TypeError).
Hashable(t) ==
  CASE t.k = "literal" -> \A i \in DOMAIN t.vals : t.vals[i] # UnhashableValue
    [] t.k = "annotated" ->
         /\ Hashable(t.args[1])
         /\ \A i \in DOMAIN t.meta : t.meta[i].mk # "map"
    [] t.k \in {"generic", "union"} -> \A i \in DOMAIN t.args : Hashable(t.args[i])
    [] OTHER -> TRUE

\* typing.get_origin(t); "none" when get_origin returns None
get_origin(t) ==
  CASE t.k = "annotated" -> "Annotated"
    [] t.k = "literal" -> "Literal"
    [] t.k = "generic" -> t.nm
    [] t.k = "union" -> IF t.nm = "typing" THEN "Union" ELSE "UnionType"
    [] OTHER -> "none"

RECURSIVE TextForm(_)
RECURSIVE JoinText(_, _)
\* repr of the members of a sequence of types, joined by sep
JoinText(args, sep) ==
  IF Len(args) = 0 THEN ""
  ELSE IF Len(args) = 1 THEN TextForm(args[1])
  ELSE TextForm(args[1]) \o sep \o JoinText(Tail(args), sep)

\* repr(t) as it appears inside the str() of an unnamed typing object
TextForm(t) ==
  CASE t.k \in {"builtin", "ellipsis"} -> t.nm
    [] t.k = "none" -> "None"
    [] t.k = "std" -> "lib." \o t.nm
    [] t.k \in {"class", "enum"} -> "schemas." \o t.nm
    [] t.k = "str" -> "'" \o t.nm \o "'"
    [] t.k = "fwdref" -> "ForwardRef('" \o t.nm \o "')"
    [] t.k = "generic" -> t.nm \o "[" \o JoinText(t.args, ", ") \o "]"
    [] t.k = "union" -> JoinText(t.args, " | ")
    [] t.k = "literal" -> "typing.Literal[...]"
    [] OTHER -> "typing.Annotated[" \o TextForm(t.args[1]) \o ", ...]"

\* getattr(t, "__name__", str(t))
NameOrText(t) ==
  CASE t.k \in {"builtin", "std", "none", "class", "enum"} -> t.nm
    [] t.k = "ellipsis" -> "Ellipsis"
    [] t.k = "annotated" -> "Annotated"
    [] OTHER -> TextForm(t)

\* outcomes of a call: a returned value or a raised exception
Return(v) == [raised |-> FALSE, exc |-> "", value |-> <<v>>]
Raise(exc) == [raised |-> TRUE, exc |-> exc, value |-> <<>>]
\* the outcome standing for a call that was not made
NoCall == [raised |-> FALSE, exc |-> "", value |-> <<>>]

\* ------------------------------------------------------ TypeMapper
_type_mapping(nm) ==
  CASE nm = "str" -> FT_STRING
    [] nm = "int" -> FT_INTEGER
    [] nm = "float" -> FT_FLOAT
    [] nm = "bool" -> FT_BOOLEAN
    [] nm = "bytes" -> FT_BYTES
    [] nm = "dict" -> FT_DICT
    [] nm = "list" -> FT_LIST
    [] nm = "set" -> FT_SET
    [] nm = "frozenset" -> FT_FROZENSET
    [] nm = "tuple" -> FT_TUPLE

BuiltinNames ==
  {"str", "int", "float", "bool", "bytes", "dict", "list", "set", "frozenset", "tuple"}

\* `type(None) in args`
NoneIn(args) == \E i \in DOMAIN args : args[i].k = "none"

\* the classification of a union by its members (usr.py 339-345)
UnionClassification(args) ==
  IF Len(args) = 2 /\ NoneIn(args) THEN FT_OPTIONAL ELSE FT_UNION

\* the well-known standard library types (usr.py 367-376)
StdClassification(nm) ==
  CASE nm = "datetime" -> FT_DATETIME
    [] nm = "date" -> FT_DATE
    [] nm = "time" -> FT_TIME
    [] nm = "UUID" -> FT_UUID
    [] nm = "Decimal" -> FT_DECIMAL

StdNames == {"datetime", "date", "time", "UUID", "Decimal"}

RECURSIVE python_type_to_usr(_)
python_type_to_usr(t) ==
  IF t.k = "str" THEN Return(FT_NESTED_SCHEMA)
  ELSE IF get_origin(t) = "Annotated" THEN python_type_to_usr(t.args[1])
  ELSE IF ~Hashable(t) THEN Raise("TypeError")
  ELSE IF t.k = "builtin" THEN Return(_type_mapping(t.nm))
  ELSE IF get_origin(t) = "Union" THEN Return(UnionClassification(t.args))
  ELSE IF get_origin(t) = "list" THEN Return(FT_LIST)
  ELSE IF get_origin(t) = "set" THEN Return(FT_SET)
  ELSE IF get_origin(t) = "frozenset" THEN Return(FT_FROZENSET)
  ELSE IF get_origin(t) = "tuple" THEN Return(FT_TUPLE)
  ELSE IF get_origin(t) = "dict" THEN Return(FT_DICT)
  ELSE IF t.k = "std" THEN Return(StdClassification(t.nm))
  ELSE IF get_origin(t) = "Literal" THEN Return(FT_LITERAL)
  ELSE IF t.k = "enum" THEN Return(FT_ENUM)
  ELSE Return(FT_NESTED_SCHEMA)

\* Python None / a present value
None == <<>>
Some(v) == <<v>>

\* the empty dict and dict.update
EmptyMap == [key \in {} |-> ""]
MapUpdate(m, u) ==
  [key \in DOMAIN m \cup DOMAIN u |-> IF key \in DOMAIN u THEN u[key] ELSE m[key]]

\* schema.FieldInfo() with its dataclass defaults; getattr(field_info, a, d) on
\* a field_info of None yields the same inert values d.
FieldInfo ==
  [default |-> None, default_factory |-> None, description |-> None,
   min_length |-> None, max_length |-> None, min_value |-> None,
   max_value |-> None, regex |-> None, format |-> None,
   primary_key |-> FALSE, unique |-> FALSE, index |-> FALSE,
   foreign_key |-> None, auto_increment |-> FALSE, auto_now_add |-> FALSE,
   auto_now |-> FALSE, relationship |-> None, back_populates |-> None,
   cascade |-> None, through_table |-> None, exclude_from |-> <<>>,
   include_only |-> <<>>, pydantic |-> EmptyMap, sqlalchemy |-> EmptyMap,
   pathway |-> EmptyMap, metadata |-> EmptyMap]

\* field_info is None (<<>>) or <<a FieldInfo>>
InfoOf(field_info) == IF field_info = None THEN FieldInfo ELSE field_info[1]

\* dataclass USRField (python_type, kept by the code "for reference" only and
\* read by no generator, is not carried)
USRField(name, type) ==
  [name |-> name, type |-> type, optional |-> FALSE, default |-> None,
   default_factory |-> None, inner_type |-> None, union_types |-> <<>>,
   literal_values |-> <<>>, nested_schema |-> None, enum_name |-> None,
   enum_values |-> <<>>, min_length |-> None, max_length |-> None,
   min_value |-> None, max_value |-> None, regex_pattern |-> None,
   format_type |-> None, primary_key |-> FALSE, unique |-> FALSE,
   index |-> FALSE, foreign_key |-> None, auto_increment |-> FALSE,
   auto_now_add |-> FALSE, auto_now |-> FALSE, relationship |-> None,
   back_populates |-> None, cascade |-> None, through_table |-> None,
   exclude_from |-> <<>>, include_only |-> <<>>,
   target_config |-> [pydantic |-> EmptyMap, sqlalchemy |-> EmptyMap,
                      pathway |-> EmptyMap],
   description |-> None, metadata |-> EmptyMap]

\* USRField(...) as create_usr_field_from_python calls it (usr.py 487-527)
BuildField(name, field_type, optional, inner_type, union_types, literal_values, nested_schema, enum_name, enum_values, info) ==
  [USRField(name, field_type) EXCEPT
     !.optional = optional, !.inner_type = inner_type,
     !.union_types = union_types, !.literal_values = literal_values,
     !.nested_schema = nested_schema, !.enum_name = enum_name,
     !.enum_values = enum_values,
     !.default = info.default, !.default_factory = info.default_factory,
     !.min_length = info.min_length, !.max_length = info.max_length,
     !.min_value = info.min_value, !.max_value = info.max_value,
     !.regex_pattern = info.regex, !.format_type = info.format,
     !.primary_key = info.primary_key, !.unique = info.unique,
     !.index = info.index, !.foreign_key = info.foreign_key,
     !.auto_increment = info.auto_increment,
     !.auto_now_add = info.auto_now_add, !.auto_now = info.auto_now,
     !.relationship = info.relationship,
     !.back_populates = info.back_populates, !.cascade = info.cascade,
     !.through_table = info.through_table,
     !.exclude_from = info.exclude_from, !.include_only = info.include_only,
     !.target_config = [pydantic |-> info.pydantic,
                        sqlalchemy |-> info.sqlalchemy,
                        pathway |-> info.pathway],
     !.description = info.description, !.metadata = info.metadata]

\* constraint_attrs: the USRField attribute an object's attribute feeds
ConstraintAttr(attr) ==
  CASE attr \in {"min_length"} -> "min_length"
    [] attr \in {"max_length"} -> "max_length"
    [] attr \in {"ge", "gt", "min_value"} -> "min_value"
    [] attr \in {"le", "lt", "max_value"} -> "max_value"
    [] attr \in {"pattern", "regex"} -> "regex_pattern"
    [] OTHER -> "none"

\* ApplyItem letting the metadata item overwrite what the declaration set
ApplyItem_overwriting(f, item) ==
  IF item.mk = "map"
    THEN [f EXCEPT !.metadata = MapUpdate(@, [key \in {item.key} |-> item.sval])]
  ELSE IF item.mk = "text" THEN [f EXCEPT !.description = Some(item.sval)]
  ELSE LET a == ConstraintAttr(item.key) IN
       CASE a = "min_length" -> [f EXCEPT !.min_length = Some(item.ival)]
         [] a = "max_length" -> [f EXCEPT !.max_length = Some(item.ival)]
         [] a = "min_value" -> [f EXCEPT !.min_value = Some(item.ival)]
         [] a = "max_value" -> [f EXCEPT !.max_value = Some(item.ival)]
         [] a = "regex_pattern" -> [f EXCEPT !.regex_pattern = Some(item.sval)]
         [] OTHER -> f

\* one Annotated metadata item applied to the field (usr.py 531-557)
ApplyItem(f, item) ==
  IF item.mk = "map"
    THEN [f EXCEPT !.metadata = MapUpdate(@, [key \in {item.key} |-> item.sval])]
  ELSE IF item.mk = "text"
    THEN IF f.description = None
           THEN [f EXCEPT !.description = Some(item.sval)] ELSE f
  ELSE LET a == ConstraintAttr(item.key) IN
       CASE a = "min_length" ->
              IF f.min_length = None
                THEN [f EXCEPT !.min_length = Some(item.ival)] ELSE f
         [] a = "max_length" ->
              IF f.max_length = None
                THEN [f EXCEPT !.max_length = Some(item.ival)] ELSE f
         [] a = "min_value" ->
              IF f.min_value = None
                THEN [f EXCEPT !.min_value = Some(item.ival)] ELSE f
         [] a = "max_value" ->
              IF f.max_value = None
                THEN [f EXCEPT !.max_value = Some(item.ival)] ELSE f
         [] a = "regex_pattern" ->
              IF f.regex_pattern = None
                THEN [f EXCEPT !.regex_pattern = Some(item.sval)] ELSE f
         [] OTHER -> f

RECURSIVE ApplyMetadata(_, _)
\* `for item in annotated_metadata`
ApplyMetadata(f, items) ==
  IF items = <<>> THEN f ELSE ApplyMetadata(ApplyItem(f, Head(items)), Tail(items))

\* next(arg for arg in args if arg is not type(None))
NonNone(args) == IF args[1].k # "none" THEN args[1] ELSE args[2]

\* `len(args) == 2 and args[1] is Ellipsis`
IsVariadic(args) == Len(args) = 2 /\ args[2].k = "ellipsis"

\* the type the field's own classification is computed from (usr.py 417-464)
ActualType(python_type) ==
  LET origin == get_origin(python_type)
      args == python_type.args IN
  IF origin \in {"Union", "UnionType"} /\ Len(args) = 2 /\ NoneIn(args)
    THEN NonNone(args)
  ELSE IF origin = "tuple" /\ IsVariadic(args) THEN Builtin("list")
  ELSE python_type

RECURSIVE create_usr_field_from_python(_, _, _)
RECURSIVE MapMembers(_, _, _)
\* [create_usr_field_from_python(f"{name}_{i}", arg, None)
\*  for i, arg in enumerate(args)], i counting on from index i
MapMembers(name, args, i) ==
  IF args = <<>> THEN Return(<<>>)
  ELSE LET h == create_usr_field_from_python(name \o "_" \o ToString(i),
                                             Head(args), None) IN
       IF h.raised THEN h
       ELSE LET r == MapMembers(name, Tail(args), i + 1) IN
            IF r.raised THEN r ELSE Return(h.value \o r.value[1])

create_usr_field_from_python(name, declared_type, field_info) ==
  LET isAnnotated == get_origin(declared_type) = "Annotated"
      python_type == IF isAnnotated THEN declared_type.args[1] ELSE declared_type
      annotated_metadata == IF isAnnotated THEN declared_type.meta ELSE <<>>
      origin == get_origin(python_type)
      args == python_type.args
      isUnion == origin \in {"Union", "UnionType"}
      optional == isUnion /\ Len(args) = 2 /\ NoneIn(args)
      actual_type == ActualType(python_type)
      hasInner ==
        \/ optional
        \/ ~isUnion /\ origin \in {"list", "set", "frozenset"} /\ args # <<>>
        \/ ~isUnion /\ origin = "tuple" /\ args # <<>> /\ IsVariadic(args)
      inner ==
        IF optional
          THEN create_usr_field_from_python(name \o "_inner", NonNone(args), None)
        ELSE IF hasInner
          THEN create_usr_field_from_python(name \o "_item", args[1], None)
        ELSE NoCall
      members ==
        IF isUnion /\ ~optional THEN MapMembers(name, args, 0)
        ELSE IF ~isUnion /\ origin = "tuple" /\ args # <<>> /\ ~IsVariadic(args)
          THEN MapMembers(name, args, 0)
        ELSE Return(<<>>)
      classified == python_type_to_usr(actual_type)
  IN
  IF inner.raised THEN inner
  ELSE IF members.raised THEN members
  ELSE IF classified.raised THEN classified
  ELSE
    LET field_type == classified.value[1]
        inner_type == IF hasInner THEN inner.value ELSE None
        usr_field ==
          BuildField(name, field_type, optional, inner_type, members.value[1],
            IF field_type = FT_LITERAL THEN actual_type.vals ELSE <<>>,
            IF field_type = FT_NESTED_SCHEMA
              THEN IF actual_type.k = "str" THEN Some(actual_type.nm)
                   ELSE Some(NameOrText(actual_type))
              ELSE None,
            IF field_type = FT_ENUM THEN Some(actual_type.nm) ELSE None,
            IF field_type = FT_ENUM THEN actual_type.vals ELSE <<>>,
            InfoOf(field_info))
    IN Return(ApplyMetadata(usr_field, annotated_metadata))

\* --------------------------------------- the declarations explored
SelfName == "TreeNode"

Color == EnumClass("Color", <<"red", "green">>)

\* declarations that may sit at any depth of a declaration
DeepAtoms ==
  {Builtin("int"), Builtin("str"), Class(SelfName), Color, Str(SelfName),
   FwdRef(SelfName)}

MetaChoices ==
  {<<TextItem("doc")>>, <<NumAttrItem("ge", 0)>>,
   <<TextItem("doc"), MapItem("unit", "cm"), TextItem("more")>>,
   <<NumAttrItem("max_length", 5), TextAttrItem("pattern", "p"),
     NumAttrItem("gt", 2), NumAttrItem("ge", 0), TextItem("doc")>>}

\* typing.Union[...] exists only for hashable members, flattens nested unions,
\* merges equal members and turns a string member into a ForwardRef
TypingMember(x) == Hashable(x) /\ x.k \notin {"union", "none", "str", "ellipsis"}

\* X | Y is a types.UnionType only between classes and builtin generic aliases
PipeMember(x) == x.k \in {"builtin", "std", "class", "enum", "generic"}

\* the declarations that wrap declaration x one level deeper, at any depth
Wrap(x) ==
  {Generic("list", <<x>>), Generic("tuple", <<x, Ellipsis>>),
   Generic("tuple", <<Builtin("str"), x>>)}
    \cup (IF TypingMember(x)
            THEN {TypingUnion(<<x, NoneType>>),
                  TypingUnion(<<NoneType, x, Builtin("float")>>)}
            ELSE {})
    \cup (IF PipeMember(x)
            THEN {PipeUnion(<<NoneType, x>>), PipeUnion(<<x, Builtin("bytes")>>)}
            ELSE {})
    \cup (IF x.k \notin {"annotated", "str"}
            THEN {Annotated(x, <<MapItem("unit", "cm")>>)}
            ELSE {})

\* further wrappings, explored as the outermost level only
TopWrap(x) ==
  {Generic("set", <<x>>), Generic("frozenset", <<x>>),
   Generic("dict", <<Builtin("str"), x>>),
   Generic("tuple", <<Builtin("str"), x, Builtin("bool")>>)}
    \cup (IF TypingMember(x) THEN {TypingUnion(<<Builtin("bytes"), x>>)} ELSE {})
    \cup (IF PipeMember(x)
            THEN {PipeUnion(<<Builtin("float"), x, NoneType>>)}
            ELSE {})
    \cup (IF x.k \notin {"annotated", "str"}
            THEN {Annotated(x, m) : m \in MetaChoices}
            ELSE {})

RECURSIVE Declarations(_)
\* the declarations of nesting depth at most d
Declarations(d) ==
  IF d = 0 THEN DeepAtoms
  ELSE LET prev == Declarations(d - 1) IN
       prev \cup UNION {Wrap(x) : x \in prev}

\* Optional[Annotated[Optional[int], "doc"]]
DoublyOptional ==
  TypingUnion(<<Annotated(TypingUnion(<<Builtin("int"), NoneType>>),
                          <<TextItem("doc")>>), NoneType>>)

\* declarations explored at top level only
TopAtoms ==
  {Builtin(nm) : nm \in BuiltinNames} \cup {Std(nm) : nm \in StdNames}
    \cup {NoneType, Class("Other"), EnumClass("Empty", <<>>), Ellipsis,
          Literal(<<"1", "a">>), Literal(<<UnhashableValue>>),
          Generic("list", <<>>), Generic("tuple", <<>>), DoublyOptional}

TypeUniverse ==
  TopAtoms \cup Declarations(MaxDepth)
    \cup UNION {TopWrap(x) : x \in Declarations(MaxDepth - 1)}

\* declaration objects explored: none, and one that sets what the checks read
SampleInfo ==
  [FieldInfo EXCEPT !.description = Some("declared"), !.primary_key = TRUE,
                    !.min_value = Some(1), !.metadata = [key \in {"unit"} |-> "m"]]

FieldInfos == {None, Some(FieldInfo), Some(SampleInfo)}

\* the declarations explored with every declaration object; the deeper ones
\* are explored with the declaration object None
ShallowDeclarations ==
  Declarations(1) \cup UNION {TopWrap(x) : x \in Declarations(0)}

\* ------------------------------------------------------ USR data model
\* A dict is a sequence of [key, value] entries in insertion order, keys
\* distinct.  A variant name is a sequence of characters, so that the naming
\* transform can split it; every other name is a string.
Keys(d) == [i \in DOMAIN d |-> d[i].key]
HasKey(d, key) == \E i \in DOMAIN d : d[i].key = key
Lookup(d, key) == d[CHOOSE i \in DOMAIN d : d[i].key = key].value
Entry(key, value) == [key |-> key, value |-> value]

\* `x in list`
InSeq(x, seq) == \E i \in DOMAIN seq : seq[i] = x

RECURSIVE Concat(_)
\* the concatenation of a sequence of sequences
Concat(seqs) == IF seqs = <<>> THEN <<>> ELSE Head(seqs) \o Concat(Tail(seqs))

ValidationIssue(severity, field_name, message) ==
  [severity |-> severity, field_name |-> field_name, message |-> message]

\* dataclass USRSchema (enums, target_config and metadata keep their defaults)
USRSchema(name, fields, variants, custom_code) ==
  [name |-> name, fields |-> fields, description |-> None, enums |-> <<>>,
   variants |-> variants, custom_code |-> custom_code,
   target_config |-> <<>>, metadata |-> <<>>]

\* the six checks of USRField.validate, each the issues it appends
PrimaryKeyOptionalIssue(f) ==
  IF f.primary_key /\ f.optional
    THEN <<ValidationIssue("warning", Some(f.name),
             <<"Field is marked as primary_key but is also optional">>)>>
    ELSE <<>>

MissingInnerTypeIssue(f) ==
  IF f.type \in {FT_LIST, FT_SET, FT_FROZENSET} /\ f.inner_type = None
    THEN <<ValidationIssue("warning", Some(f.name),
             <<"{} field has no inner_type specified", f.type>>)>>
    ELSE <<>>

ValueBoundIssue(f) ==
  IF (f.min_value # None \/ f.max_value # None) /\ f.type \notin NUMERIC_TYPES
    THEN <<ValidationIssue("warning", Some(f.name),
             <<"min_value/max_value set on non-numeric field (type={})",
               f.type>>)>>
    ELSE <<>>

LengthBoundIssue(f) ==
  IF (f.min_length # None \/ f.max_length # None)
       /\ f.type \notin STRING_LIKE_TYPES
    THEN <<ValidationIssue("warning", Some(f.name),
             <<"min_length/max_length set on non-string/non-list field (type={})",
               f.type>>)>>
    ELSE <<>>

EmptyEnumIssue(f) ==
  IF f.enum_name \notin {None, Some("")} /\ f.enum_values = <<>>
    THEN <<ValidationIssue("error", Some(f.name),
             <<"enum_name '{}' is set but enum_values is empty",
               f.enum_name[1]>>)>>
    ELSE <<>>

ForeignKeyIssue(f) ==
  IF f.foreign_key \notin {None, Some("")}
       /\ f.relationship \in {None, Some("")}
    THEN <<ValidationIssue("info", Some(f.name),
             <<"foreign_key is set but no relationship is defined">>)>>
    ELSE <<>>

\* USRField.validate with the checks chained by elif: the first issue found
\* ends the validation
USRField_validate_elif(f) ==
  IF PrimaryKeyOptionalIssue(f) # <<>> THEN PrimaryKeyOptionalIssue(f)
  ELSE IF MissingInnerTypeIssue(f) # <<>> THEN MissingInnerTypeIssue(f)
  ELSE IF ValueBoundIssue(f) # <<>> THEN ValueBoundIssue(f)
  ELSE IF LengthBoundIssue(f) # <<>> THEN LengthBoundIssue(f)
  ELSE IF EmptyEnumIssue(f) # <<>> THEN EmptyEnumIssue(f)
  ELSE ForeignKeyIssue(f)

\* USRField.validate: six independent checks, in source order
USRField_validate(f) ==
  PrimaryKeyOptionalIssue(f) \o MissingInnerTypeIssue(f) \o ValueBoundIssue(f)
  \o LengthBoundIssue(f) \o EmptyEnumIssue(f) \o ForeignKeyIssue(f)

FieldNames(schema) == {schema.fields[i].name : i \in DOMAIN schema.fields}

\* the issues of one variant's references (usr.py 286-298)
VariantIssues(schema, entry) ==
  LET Missing(ref_name) == ref_name \notin FieldNames(schema)
      missing == SelectSeq(entry.value, Missing)
  IN [i \in DOMAIN missing |->
        ValidationIssue("error", None,
          <<"Variant '{}' references field '{}' which does not exist on schema '{}'",
            entry.key, missing[i], schema.name>>)]

\* USRSchema.validate reporting the variant references before the fields
USRSchema_validate_variants_first(schema) ==
  Concat([j \in DOMAIN schema.variants |->
            VariantIssues(schema, schema.variants[j])])
  \o Concat([i \in DOMAIN schema.fields |-> USRField_validate(schema.fields[i])])

\* USRSchema.validate
USRSchema_validate(schema) ==
  Concat([i \in DOMAIN schema.fields |-> USRField_validate(schema.fields[i])])
  \o Concat([j \in DOMAIN schema.variants |->
               VariantIssues(schema, schema.variants[j])])

\* IsSelfReferencing without the test of the container kind
IsSelfReferencing_any_inner(schema, f) ==
  \/ f.nested_schema = Some(schema.name)
  \/ /\ f.inner_type # None
     /\ f.inner_type[1].nested_schema = Some(schema.name)

\* the predicate of USRSchema.get_self_referencing_fields (usr.py 246-250)
IsSelfReferencing(schema, f) ==
  \/ f.nested_schema = Some(schema.name)
  \/ /\ f.type \in {FT_LIST, FT_SET, FT_FROZENSET}
     /\ f.inner_type # None
     /\ f.inner_type[1].nested_schema = Some(schema.name)

get_self_referencing_fields(schema) ==
  LET Keep(f) == IsSelfReferencing(schema, f) IN SelectSeq(schema.fields, Keep)

\* VariantSelection walking the variant's list instead of the schema's fields
VariantSelection_in_listed_order(schema, variant_field_names) ==
  LET Known(n) == n \in {schema.fields[i].name : i \in DOMAIN schema.fields}
      known == SelectSeq(variant_field_names, Known)
  IN [i \in DOMAIN known |->
        schema.fields[CHOOSE j \in DOMAIN schema.fields :
                        schema.fields[j].name = known[i]]]

\* the fields get_variant_fields selects once the variant is known
VariantSelection(schema, variant_field_names) ==
  LET Keep(f) == InSeq(f.name, variant_field_names) IN SelectSeq(schema.fields, Keep)

\* get_variant_fields falling back to all fields for an unknown variant
get_variant_fields_with_fallback(schema, variant_name) ==
  IF ~HasKey(schema.variants, variant_name) THEN Return(schema.fields)
  ELSE Return(VariantSelection(schema, Lookup(schema.variants, variant_name)))

\* USRSchema.get_variant_fields
get_variant_fields(schema, variant_name) ==
  IF ~HasKey(schema.variants, variant_name) THEN Raise("KeyError")
  ELSE Return(VariantSelection(schema, Lookup(schema.variants, variant_name)))

\* ------------------------------------------------ generator contract
Backends ==
  {"pydantic", "sqlalchemy", "dataclasses", "typeddict", "pathway", "zod",
   "jsonschema", "graphql", "protobuf", "avro", "jackson", "kotlin"}

\* every generate_file loops over schema.variants, except SqlAlchemy's,
\* which renders the base model only
RendersVariantsInFile(backend) == backend # "sqlalchemy"

\* str.upper / str.lower on the characters explored
Upper(c) == CASE c = "a" -> "A" [] c = "b" -> "B" [] OTHER -> c
Lower(c) == CASE c = "A" -> "a" [] c = "B" -> "b" [] OTHER -> c

RECURSIVE SplitOn(_, _, _)
\* chars.split(sep), cur being the part under construction
SplitOn(chars, sep, cur) ==
  IF chars = <<>> THEN <<cur>>
  ELSE IF Head(chars) = sep THEN <<cur>> \o SplitOn(Tail(chars), sep, <<>>)
  ELSE SplitOn(Tail(chars), sep, cur \o <<Head(chars)>>)

Capitalize_unchanged(word) == word

\* word.capitalize()
Capitalize(word) ==
  [i \in DOMAIN word |-> IF i = 1 THEN Upper(word[i]) ELSE Lower(word[i])]

\* _variant_to_class_name (_variant_to_record_name, _variant_to_message_name,
\* ... are the same function in every backend): a text is the sequence of
\* its pieces, the schema name being one piece
_variant_to_class_name(schema_name, variant_name) ==
  LET parts == SplitOn(variant_name, "_", <<>>) IN
  <<schema_name>> \o Concat([i \in DOMAIN parts |-> Capitalize(parts[i])])

\* Python truthiness of a `str | None` argument: None and "" are falsy
Truthy(variant) == variant # None /\ variant[1] # <<>>

\* what a rendered model shows: its type name, its fields in order, and the
\* custom-code fragments spliced into its body
Rendering(model_name, fields, fragments) ==
  [model_name |-> model_name,
   fields |-> [i \in DOMAIN fields |-> fields[i].name],
   custom_code |-> fragments]

\* `custom_code.get(key)` being truthy: the key is there with a text that is
\* not empty
HasFragment(custom_code, key) ==
  HasKey(custom_code, key) /\ Lookup(custom_code, key) # ""

\* the "# Custom validators" and "# Custom methods" blocks of
\* _generate_single_model, each the fragment it was given
SplicedFragments(custom_code) ==
  (IF HasFragment(custom_code, "raw_code")
     THEN <<Entry("raw_code", Lookup(custom_code, "raw_code"))>> ELSE <<>>)
  \o (IF HasFragment(custom_code, "methods")
        THEN <<Entry("methods", Lookup(custom_code, "methods"))>> ELSE <<>>)

\* PydanticGenerator._generate_single_model: custom code goes into the base
\* model only
_generate_single_model(model_name, fields, is_base_model, custom_code) ==
  Rendering(model_name, fields,
            IF is_base_model /\ custom_code # <<>>
              THEN SplicedFragments(custom_code) ELSE <<>>)

\* `schema.custom_code.get("pydantic", {})` of PydanticGenerator.generate_file;
\* no other backend reads schema.custom_code
TargetCustomCode(backend, schema) ==
  IF backend = "pydantic" /\ HasKey(schema.custom_code, "pydantic")
    THEN Lookup(schema.custom_code, "pydantic") ELSE <<>>

\* the test by which DataclassesGenerator puts a field after the required
\* fields: a default, optional, a default_factory, a datetime type or an
\* auto_now[_add] flag
IsDefaultedField(field) ==
  \/ field.default # None
  \/ field.optional
  \/ field.default_factory # None
  \/ field.type = FT_DATETIME
  \/ field.auto_now_add
  \/ field.auto_now

\* DataclassesGenerator._generate_field_definition: whether the line of the
\* field ends with `= <default>`
RendersDefault(field) ==
  IF field.default # None THEN TRUE
  ELSE IF field.optional THEN TRUE
  ELSE IF field.default_factory # None THEN TRUE
  ELSE IF field.auto_now_add THEN field.type \in {FT_DATETIME, FT_DATE}
  ELSE IF field.auto_now THEN field.type \in {FT_DATETIME, FT_DATE}
  ELSE field.type = FT_DATETIME

\* the order in which a model shows its fields: DataclassesGenerator puts
\* `required_fields + optional_fields`, the other backends keep the order
\* of the fields
FieldsAsRendered(backend, fields) ==
  LET Required(f) == ~IsDefaultedField(f) IN
  IF backend = "dataclasses"
    THEN SelectSeq(fields, Required) \o SelectSeq(fields, IsDefaultedField)
    ELSE fields

\* <Backend>Generator.generate_model(schema, variant): no template has a
\* place for custom code
generate_model(backend, schema, variant) ==
  LET selected == IF Truthy(variant) THEN get_variant_fields(schema, variant[1])
                  ELSE Return(schema.fields)
      model_name == IF Truthy(variant)
                      THEN _variant_to_class_name(schema.name, variant[1])
                      ELSE <<schema.name>>
  IN IF selected.raised THEN selected
     ELSE Return(Rendering(model_name,
                           FieldsAsRendered(backend, selected.value[1]), <<>>))

RECURSIVE RenderVariants_with_custom_code(_, _, _)
RenderVariants_with_custom_code(backend, schema, entries) ==
  IF entries = <<>> THEN Return(<<>>)
  ELSE LET fields == get_variant_fields(schema, Head(entries).key) IN
       IF fields.raised THEN fields
       ELSE LET rest == RenderVariants_with_custom_code(backend, schema, Tail(entries)) IN
            IF rest.raised THEN rest
            ELSE Return(<<_generate_single_model(
                            _variant_to_class_name(schema.name, Head(entries).key),
                            FieldsAsRendered(backend, fields.value[1]), TRUE,
                            TargetCustomCode("pydantic", schema))>>
                        \o rest.value[1])

RECURSIVE RenderVariants(_, _, _)
\* `for variant_name in schema.variants:` of generate_file: a variant is
\* rendered with is_base_model=False and without the custom code
RenderVariants(backend, schema, entries) ==
  IF entries = <<>> THEN Return(<<>>)
  ELSE LET fields == get_variant_fields(schema, Head(entries).key) IN
       IF fields.raised THEN fields
       ELSE LET rest == RenderVariants(backend, schema, Tail(entries)) IN
            IF rest.raised THEN rest
            ELSE Return(<<_generate_single_model(
                            _variant_to_class_name(schema.name, Head(entries).key),
                            FieldsAsRendered(backend, fields.value[1]), FALSE,
                            <<>>)>>
                        \o rest.value[1])

RECURSIVE ImportedModules(_)
RECURSIVE MemberModules(_)
\* the modules the members of a tuple or union need
MemberModules(fields) ==
  IF fields = <<>> THEN {}
  ELSE ImportedModules(Head(fields)) \cup MemberModules(Tail(fields))

\* the imports _get_python_type adds for a field, "typing" left out
\* (dataclasses_generator.py 262-352, typeddict_generator.py 130-200)
ImportedModules(f) ==
  CASE f.type \in {FT_DATETIME, FT_DATE} -> {"datetime"}
    [] f.type = FT_UUID -> {"uuid"}
    [] f.type = FT_DECIMAL -> {"decimal"}
    [] f.type \in {FT_LIST, FT_SET, FT_FROZENSET} ->
         IF f.inner_type = None THEN {} ELSE ImportedModules(f.inner_type[1])
    [] f.type \in {FT_TUPLE, FT_UNION} -> MemberModules(f.union_types)
    [] OTHER -> {}

\* the line _generate_complete_file writes for an imported module
ImportLine(module) ==
  CASE module = "datetime" -> "import datetime"
    [] module = "uuid" -> "import uuid"
    [] OTHER -> "from decimal import Decimal"

\* set(other_imports) of _generate_complete_file
OtherImports(schema) ==
  {ImportLine(m) : m \in MemberModules(schema.fields)}

\* the orders in which `for imp_line in set(other_imports)` may visit the
\* set: the iteration order of a set of strings follows their hashes, which
\* each interpreter run seeds anew
IterationOrders(lines) ==
  {order \in [1..Cardinality(lines) -> lines] :
     \A i, j \in DOMAIN order : i # j => order[i] # order[j]}

\* the backends whose _generate_complete_file iterates set(other_imports);
\* the other backends write their imports from sorted(...)
IteratesImportSet(backend) == backend \in {"dataclasses", "typeddict"}

RECURSIVE JoinTokens(_)
\* ", ".join(parts), each part a sequence of tokens
JoinTokens(parts) ==
  IF parts = <<>> THEN <<>>
  ELSE IF Len(parts) = 1 THEN parts[1]
  ELSE parts[1] \o <<", ">> \o JoinTokens(Tail(parts))

\* f'"{name}"': a quoted forward reference
Quoted(name) == <<"\"", name, "\"">>

RECURSIVE _get_pydantic_type(_)
\* PydanticGenerator._get_pydantic_type: the annotation of a field, as the
\* sequence of its tokens
_get_pydantic_type(field) ==
  LET Inner == _get_pydantic_type(field.inner_type[1])
      members == [i \in DOMAIN field.union_types |->
                    _get_pydantic_type(field.union_types[i])]
      Container(name) == IF field.inner_type # None
                           THEN <<name, "[">> \o Inner \o <<"]">>
                           ELSE <<name, "[", "Any", "]">>
  IN IF field.optional /\ field.inner_type # None
       THEN <<"Optional", "[">> \o Inner \o <<"]">>
     ELSE CASE field.type = FT_STRING ->
                 IF field.format_type = Some("email") THEN <<"EmailStr">>
                 ELSE <<"str">>
            [] field.type = FT_INTEGER -> <<"int">>
            [] field.type = FT_FLOAT -> <<"float">>
            [] field.type = FT_BOOLEAN -> <<"bool">>
            [] field.type = FT_DATETIME -> <<"datetime">>
            [] field.type = FT_DATE -> <<"date">>
            [] field.type = FT_UUID -> <<"UUID">>
            [] field.type = FT_DECIMAL -> <<"Decimal">>
            [] field.type = FT_LIST -> Container("list")
            [] field.type = FT_SET -> Container("set")
            [] field.type = FT_FROZENSET -> Container("frozenset")
            [] field.type = FT_DICT -> <<"dict", "[", "str", ", ", "Any", "]">>
            [] field.type = FT_UNION ->
                 IF members # <<>>
                   THEN <<"Union", "[">> \o JoinTokens(members) \o <<"]">>
                   ELSE <<"Any">>
            [] field.type = FT_LITERAL ->
                 IF field.literal_values # <<>> THEN <<"Literal">> ELSE <<"str">>
            [] field.type = FT_TUPLE ->
                 IF members # <<>>
                   THEN <<"tuple", "[">> \o JoinTokens(members) \o <<"]">>
                   ELSE <<"tuple", "[", "()", "]">>
            [] field.type = FT_ENUM ->
                 IF field.enum_name # None /\ field.enum_name[1] # ""
                   THEN <<field.enum_name[1]>> ELSE <<"str">>
            [] field.type = FT_NESTED_SCHEMA ->
                 Quoted(IF field.nested_schema # None
                          THEN field.nested_schema[1] ELSE "None")
            [] OTHER -> <<"Any">>

RebuildStatements_per_field(backend, schema) ==
  IF backend = "pydantic"
    THEN [i \in DOMAIN get_self_referencing_fields(schema) |->
            Entry("model_rebuild", <<schema.name>>)]
    ELSE <<>>

\* the statements a file has after its models: PydanticGenerator alone asks
\* for `<schema.name>.model_rebuild()`, once, when a field refers to the
\* schema itself
RebuildStatements(backend, schema) ==
  IF backend = "pydantic" /\ get_self_referencing_fields(schema) # <<>>
    THEN <<Entry("model_rebuild", <<schema.name>>)>>
    ELSE <<>>

\* <Backend>Generator.generate_file(schema): the base model, then the
\* variants; iteration_order is the order in which the run iterates
\* set(other_imports)
generate_file(backend, schema, iteration_order) ==
  LET base == _generate_single_model(<<schema.name>>,
                                     FieldsAsRendered(backend, schema.fields),
                                     TRUE, TargetCustomCode(backend, schema))
      variants == IF RendersVariantsInFile(backend)
                    THEN RenderVariants(backend, schema, schema.variants)
                    ELSE Return(<<>>)
  IN IF variants.raised THEN variants
     ELSE Return([models |-> <<base>> \o variants.value[1],
                  statements |->
                    LET models == <<base>> \o variants.value[1] IN
                    [j \in DOMAIN models |-> Entry("class", models[j].model_name)]
                      \o RebuildStatements(backend, schema),
                  annotations |->
                    IF backend = "pydantic"
                      THEN [i \in DOMAIN schema.fields |->
                              _get_pydantic_type(schema.fields[i])]
                      ELSE <<>>,
                  other_imports |-> IF IteratesImportSet(backend)
                                      THEN iteration_order ELSE <<>>])

\* the names an index file re-exports for a schema, None where the backend
\* has no index of names: generate_index of the pydantic, dataclasses,
\* pathway and sqlalchemy generators, and the engine's _generate_python_files
\* (typeddict) and _generate_zod_files (zod)
generate_index(backend, schema) ==
  LET variant_classes ==
        [j \in DOMAIN schema.variants |->
           _variant_to_class_name(schema.name, schema.variants[j].key)]
      all_classes == <<<<schema.name>>>> \o variant_classes
  IN CASE backend \in {"pydantic", "dataclasses", "pathway", "typeddict"} ->
            Some(all_classes)
       [] backend = "sqlalchemy" -> Some(<<<<"Base">>, <<schema.name>>>>)
       [] backend = "zod" ->
            Some(Concat([j \in DOMAIN all_classes |->
                           <<all_classes[j] \o <<"Schema">>, all_classes[j]>>]))
       [] OTHER -> None

\* ----------------------------------------------------- AvroGenerator
\* the Avro types the generator builds: a Python str names a type, a dict
\* describes a logical type, an array, a map or an enum, a list is a union
AvroStr(name) == [kind |-> "str", name |-> name, of |-> <<>>]
AvroDict(name, of) == [kind |-> "dict", name |-> name, of |-> of]
AvroList(branches) == [kind |-> "list", name |-> "", of |-> branches]

RECURSIVE Dedup(_)
\* `if avro_type not in inner_types: inner_types.append(avro_type)`
Dedup(types) ==
  IF types = <<>> THEN <<>>
  ELSE LET front == Dedup(SubSeq(types, 1, Len(types) - 1)) IN
       IF InSeq(types[Len(types)], front) THEN front
       ELSE Append(front, types[Len(types)])

RECURSIVE _get_base_avro_type(_)
\* AvroGenerator._get_base_avro_type: the type without the null union
_get_base_avro_type(field) ==
  LET members == [i \in DOMAIN field.union_types |->
                    _get_base_avro_type(field.union_types[i])]
  IN CASE field.type = FT_STRING -> AvroStr("string")
       [] field.type = FT_INTEGER ->
            IF /\ field.max_value # None /\ field.max_value[1] <= 2147483647
               /\ field.min_value # None /\ field.min_value[1] >= -2147483647 - 1
              THEN AvroStr("int") ELSE AvroStr("long")
       [] field.type = FT_FLOAT -> AvroStr("double")
       [] field.type = FT_BOOLEAN -> AvroStr("boolean")
       [] field.type = FT_DATETIME -> AvroDict("timestamp-millis", <<>>)
       [] field.type = FT_DATE -> AvroDict("date", <<>>)
       [] field.type = FT_UUID -> AvroDict("uuid", <<>>)
       [] field.type = FT_DECIMAL -> AvroDict("decimal", <<>>)
       [] field.type \in {FT_LIST, FT_SET, FT_FROZENSET} ->
            AvroDict("array", <<IF field.inner_type # None
                                  THEN _get_base_avro_type(field.inner_type[1])
                                  ELSE AvroStr("string")>>)
       [] field.type = FT_TUPLE ->
            IF members = <<>> THEN AvroDict("array", <<AvroStr("string")>>)
            ELSE IF Len(Dedup(members)) = 1
                   THEN AvroDict("array", <<Dedup(members)[1]>>)
                   ELSE AvroDict("array", <<AvroList(Dedup(members))>>)
       [] field.type = FT_DICT -> AvroDict("map", <<AvroStr("string")>>)
       [] field.type = FT_UNION ->
            IF members # <<>> THEN AvroList(members) ELSE AvroStr("string")
       [] field.type = FT_ENUM ->
            IF field.enum_values # <<>> THEN AvroDict("enum", <<>>)
            ELSE AvroStr("string")
       [] field.type = FT_NESTED_SCHEMA /\ field.nested_schema # None ->
            AvroStr(field.nested_schema[1])
       [] OTHER -> AvroStr("string")

_get_avro_type_null_last(field) ==
  LET base_type == _get_base_avro_type(field) IN
  IF field.optional
    THEN IF base_type.kind = "list"
           THEN AvroList(Append(base_type.of, AvroStr("null")))
           ELSE AvroList(<<base_type, AvroStr("null")>>)
    ELSE base_type

\* AvroGenerator._get_avro_type: an optional field becomes a union with
\* null first
_get_avro_type(field) ==
  LET base_type == _get_base_avro_type(field)
      NotNull(t) == t # AvroStr("null")
  IN IF field.optional
       THEN IF base_type.kind = "list"
              THEN IF ~InSeq(AvroStr("null"), base_type.of)
                     THEN AvroList(<<AvroStr("null")>> \o base_type.of)
                   ELSE IF base_type.of[1] # AvroStr("null")
                     THEN AvroList(<<AvroStr("null")>>
                                     \o SelectSeq(base_type.of, NotNull))
                   ELSE base_type
              ELSE AvroList(<<AvroStr("null"), base_type>>)
       ELSE base_type

\* AvroGenerator._generate_field_definition: the name and the type of the
\* field definition
_generate_field_definition(field) ==
  [name |-> field.name, type |-> _get_avro_type(field)]

\* -------------------------------------------------- ProtobufGenerator
\* a Python int of any size: its sign and its magnitude in four 16-bit
\* limbs, the most significant first (zero is not negative)
BigInt(neg, mag) == [neg |-> neg, mag |-> mag]

RECURSIVE MagLeq(_, _)
\* a <= b on magnitudes of equal length
MagLeq(a, b) ==
  IF a = <<>> THEN TRUE
  ELSE IF Head(a) # Head(b) THEN Head(a) < Head(b)
  ELSE MagLeq(Tail(a), Tail(b))

\* x <= y on Python ints
IntLeq(x, y) ==
  IF x.neg # y.neg THEN x.neg
  ELSE IF x.neg THEN MagLeq(y.mag, x.mag) ELSE MagLeq(x.mag, y.mag)

\* the literals of _get_protobuf_type: 0, 2147483647 and 4294967295
Zero == BigInt(FALSE, <<0, 0, 0, 0>>)
Int32Max == BigInt(FALSE, <<0, 0, 32767, 65535>>)
UInt32Max == BigInt(FALSE, <<0, 0, 65535, 65535>>)

_get_protobuf_type_signed_cutoff(field) ==
  CASE field.type = FT_STRING -> "string"
    [] field.type = FT_INTEGER ->
         IF field.min_value # None /\ IntLeq(Zero, field.min_value[1])
           THEN IF field.max_value # None /\ IntLeq(field.max_value[1], Int32Max)
                  THEN "uint32" ELSE "uint64"
           ELSE IF field.max_value # None /\ IntLeq(field.max_value[1], Int32Max)
                  THEN "int32" ELSE "int64"
    [] field.type = FT_FLOAT -> "double"
    [] field.type = FT_BOOLEAN -> "bool"
    [] OTHER -> "string"

\* ProtobufGenerator._get_protobuf_type, for the scalar types explored
_get_protobuf_type(field) ==
  CASE field.type = FT_STRING -> "string"
    [] field.type = FT_INTEGER ->
         IF field.min_value # None /\ IntLeq(Zero, field.min_value[1])
           THEN IF field.max_value # None /\ IntLeq(field.max_value[1], UInt32Max)
                  THEN "uint32" ELSE "uint64"
           ELSE IF field.max_value # None /\ IntLeq(field.max_value[1], Int32Max)
                  THEN "int32" ELSE "int64"
    [] field.type = FT_FLOAT -> "double"
    [] field.type = FT_BOOLEAN -> "bool"
    [] OTHER -> "string"

\* ------------------------------------------------------ SchemaParser
\* code points order the characters explored: "A" < "B" < "_" < "a" < "b"
CharCode(c) ==
  CASE c = "A" -> 65 [] c = "B" -> 66 [] c = "_" -> 95 [] c = "a" -> 97
    [] c = "b" -> 98

RECURSIVE StrLess(_, _)
\* a < b on strings
StrLess(a, b) ==
  IF b = <<>> THEN FALSE
  ELSE IF a = <<>> THEN TRUE
  ELSE IF Head(a) # Head(b) THEN CharCode(Head(a)) < CharCode(Head(b))
  ELSE StrLess(Tail(a), Tail(b))

RECURSIVE SortedByKey(_)
\* dir(cls): the attributes in alphabetical order of their names
SortedByKey(entries) ==
  IF entries = <<>> THEN <<>>
  ELSE LET least == CHOOSE i \in DOMAIN entries :
                      \A j \in DOMAIN entries :
                        j # i => StrLess(entries[i].key, entries[j].key)
           Others(e) == e # entries[least]
       IN <<entries[least]>> \o SortedByKey(SelectSeq(entries, Others))

RECURSIVE MapFields(_)
\* the loop over schema_class._schema_fields.items()
MapFields(items) ==
  IF items = <<>> THEN Return(<<>>)
  ELSE LET h == create_usr_field_from_python(Head(items).name, Head(items).type,
                                             Head(items).field_info) IN
       IF h.raised THEN h
       ELSE LET r == MapFields(Tail(items)) IN
            IF r.raised THEN r ELSE Return(h.value \o r.value[1])

\* a class handed to the parser: decorated says whether @Schema set
\* _schema_fields; Variants is None or the attributes of the Variants class,
\* each [key |-> name, value |-> field names] with is_list telling whether
\* the attribute value is a list
SchemaClass(name, decorated, schema_fields, Variants) ==
  [name |-> name, decorated |-> decorated, schema_fields |-> schema_fields,
   Variants |-> Variants, custom_code |-> <<>>]

\* SchemaParser.parse_schema
parse_schema(schema_class) ==
  IF ~schema_class.decorated THEN Raise("ValueError")
  ELSE
    LET usr_fields == MapFields(schema_class.schema_fields)
        Public(a) == a.is_list /\ (a.key = <<>> \/ Head(a.key) # "_")
        attrs == IF schema_class.Variants = None THEN <<>>
                 ELSE SelectSeq(SortedByKey(schema_class.Variants[1]), Public)
        variants == [i \in DOMAIN attrs |-> Entry(attrs[i].key, attrs[i].value)]
    IN IF usr_fields.raised THEN usr_fields
       ELSE Return(USRSchema(schema_class.name, usr_fields.value[1], variants,
                             schema_class.custom_code))

\* ------------------------------------------- hand-built schemas explored
NestedRef(name, target) ==
  [USRField(name, FT_NESTED_SCHEMA) EXCEPT !.nested_schema = Some(target)]

\* the fields a hand-built schema is made of (as tests build them)
FieldPool ==
  {USRField("value", FT_STRING),
   [USRField("children", FT_LIST) EXCEPT
      !.inner_type = Some(NestedRef("children_item", SelfName))],
   [USRField("children", FT_TUPLE) EXCEPT
      !.inner_type = Some(NestedRef("children_item", SelfName))],
   [NestedRef("parent", SelfName) EXCEPT !.optional = TRUE],
   NestedRef("parent", "Other"),
   [USRField("kind", FT_ENUM) EXCEPT !.enum_name = Some("Kind")]}

\* the field lists: at most MaxFields pool fields with distinct names
FieldLists ==
  {fs \in UNION {[1..n -> FieldPool] : n \in 0..MaxFields} :
     \A i, j \in DOMAIN fs : i # j => fs[i].name # fs[j].name}

\* variant names: "a_b", "b", "a", the empty string and "aB__b"
V_a_b == <<"a", "_", "b">>
V_b == <<"b">>
V_a == <<"a">>
V_empty == <<>>
V_aB_b == <<"a", "B", "_", "_", "b">>
V_a__b == <<"a", "_", "_", "b">>

VariantMaps ==
  {<<>>,
   <<Entry(V_a_b, <<"parent", "value">>)>>,
   <<Entry(V_a_b, <<"value", "missing">>), Entry(V_b, <<"children">>)>>,
   <<Entry(V_b, <<"kind", "value", "value">>), Entry(V_a_b, <<>>)>>,
   <<Entry(V_empty, <<"value">>)>>,
   <<Entry(V_a_b, <<"value">>), Entry(V_a__b, <<"kind">>)>>}

\* the variant arguments of a call: None, "", "a_b", "b", "a", "aB__b"
VariantArgs ==
  {None, Some(V_empty), Some(V_a_b), Some(V_b), Some(V_a), Some(V_aB_b)}

HandBuiltSchemas ==
  {USRSchema(SelfName, fs, vs, <<>>) : fs \in FieldLists, vs \in VariantMaps}

\* the Variants classes handed to the parser: "b" declared before "a_b", a
\* private attribute and an attribute that is not a list
VariantsClasses ==
  {None,
   Some(<<[key |-> V_b, value |-> <<"link">>, is_list |-> TRUE],
          [key |-> V_a_b, value |-> <<"value", "link">>, is_list |-> TRUE],
          [key |-> <<"_", "a">>, value |-> <<"value">>, is_list |-> TRUE],
          [key |-> <<"A">>, value |-> <<>>, is_list |-> FALSE]>>),
   Some(<<[key |-> V_a, value |-> <<"value", "ghost_field">>, is_list |-> TRUE]>>)}

\* ---------------------------------------------------------- state
VARIABLES
  python_type,   \* the declaration handed to the TypeMapper
  field_info,    \* its declaration object, None or a FieldInfo
  schema,        \* the USRSchema operated on (NoSchema before parsing)
  call,          \* the last call: operation, backend and variant argument
  outcome,       \* what that call returned or raised
  watcher        \* the watched directory, the registry and the last regeneration

vars == <<python_type, field_info, schema, call, outcome, watcher>>

NoSchema == USRSchema("", <<>>, <<>>, <<>>)

\* no directory is watched
NoWatcher ==
  [files |-> <<>>, registry |-> {}, generated |-> {}, last_run |-> 0,
   now |-> 0, ran |-> FALSE]

Call(op, backend, variant) == [op |-> op, backend |-> backend, variant |-> variant]

\* the class the parser is given: schema SelfName with a plain field and a
\* field "link" declared as python_type
DeclaredClass(decorated, Variants) ==
  SchemaClass(SelfName, decorated,
    <<[name |-> "value", type |-> Builtin("str"), field_info |-> Some(FieldInfo)],
      [name |-> "link", type |-> python_type, field_info |-> field_info]>>,
    Variants)

\* the declaration object after the call: the produced field's metadata is
\* the declaration object's own dict (usr.py 526), which line 534 updates
InfoAfter(info, result) ==
  IF info = None \/ result.raised THEN info
  ELSE Some([info[1] EXCEPT !.metadata = result.value[1].metadata])

MapperInit ==
  /\ python_type \in TypeUniverse
  /\ field_info \in (IF python_type \in ShallowDeclarations THEN FieldInfos
                     ELSE {None})
  /\ schema = NoSchema
  /\ call = Call("none", "", None)
  /\ outcome = NoCall
  /\ watcher = NoWatcher

SchemaInit ==
  /\ python_type = Builtin("str")
  /\ field_info = None
  /\ schema \in HandBuiltSchemas
  /\ call = Call("none", "", None)
  /\ outcome = NoCall
  /\ watcher = NoWatcher

\* A behaviour explores one call on a fresh input and, once a schema is
\* parsed, the query on it.
Idle == call.op = "none"

\* TypeMapper.python_type_to_usr(python_type)
PythonTypeToUsr ==
  /\ Idle
  /\ call' = Call("python_type_to_usr", "", None)
  /\ outcome' = python_type_to_usr(python_type)
  /\ UNCHANGED <<python_type, field_info, schema, watcher>>

\* TypeMapper.create_usr_field_from_python("link", python_type, field_info)
CreateUsrField ==
  LET result == create_usr_field_from_python("link", python_type, field_info) IN
  /\ Idle
  /\ call' = Call("create_usr_field_from_python", "", None)
  /\ outcome' = result
  /\ field_info' = InfoAfter(field_info, result)
  /\ UNCHANGED <<python_type, schema, watcher>>

\* SchemaParser.parse_schema(schema_class)
ParseSchema ==
  \E decorated \in BOOLEAN, Variants \in VariantsClasses :
    LET result == parse_schema(DeclaredClass(decorated, Variants)) IN
    /\ Idle
    /\ call' = Call("parse_schema", "", None)
    /\ outcome' = result
    /\ schema' = IF result.raised THEN schema ELSE result.value[1]
    /\ field_info' =
         IF result.raised THEN field_info
         ELSE InfoAfter(field_info, Return(result.value[1].fields[2]))
    /\ UNCHANGED <<python_type, watcher>>

\* schema.get_self_referencing_fields()
GetSelfReferencingFields ==
  /\ schema # NoSchema
  /\ call.op \in {"none", "parse_schema"}
  /\ call' = Call("get_self_referencing_fields", "", None)
  /\ outcome' = Return(get_self_referencing_fields(schema))
  /\ UNCHANGED <<python_type, field_info, schema, watcher>>

\* schema.get_variant_fields(variant_name)
GetVariantFields ==
  \E variant \in VariantArgs \ {None} :
    /\ schema # NoSchema /\ Idle
    /\ call' = Call("get_variant_fields", "", variant)
    /\ outcome' = get_variant_fields(schema, variant[1])
    /\ UNCHANGED <<python_type, field_info, schema, watcher>>

\* schema.validate()
Validate ==
  /\ schema # NoSchema /\ Idle
  /\ call' = Call("validate", "", None)
  /\ outcome' = Return(USRSchema_validate(schema))
  /\ UNCHANGED <<python_type, field_info, schema, watcher>>

\* generator.generate_model(schema, variant); the call may be repeated
GenerateModel ==
  \E backend \in Backends, variant \in VariantArgs :
    /\ schema # NoSchema
    /\ Idle \/ call = Call("generate_model", backend, variant)
    /\ call' = Call("generate_model", backend, variant)
    /\ outcome' = generate_model(backend, schema, variant)
    /\ UNCHANGED <<python_type, field_info, schema, watcher>>

\* generator.generate_file(schema); the call may be repeated, in the same
\* run of the interpreter or in a later one
GenerateFile ==
  \E backend \in Backends, order \in IterationOrders(OtherImports(schema)) :
    /\ schema # NoSchema
    /\ Idle \/ call = Call("generate_file", backend, None)
    /\ call' = Call("generate_file", backend, None)
    /\ outcome' = generate_file(backend, schema, order)
    /\ UNCHANGED <<python_type, field_info, schema, watcher>>

\* generator.generate_index([schema], output_dir), or the index file the
\* generation engine writes for the backend
GenerateIndex ==
  \E backend \in Backends :
    /\ schema # NoSchema /\ Idle
    /\ call' = Call("generate_index", backend, None)
    /\ outcome' = Return(generate_index(backend, schema))
    /\ UNCHANGED <<python_type, field_info, schema, watcher>>

MapperNext ==
  \/ PythonTypeToUsr
  \/ CreateUsrField
  \/ ParseSchema
  \/ GetSelfReferencingFields

SchemaNext ==
  \/ GetVariantFields
  \/ GetSelfReferencingFields
  \/ Validate
  \/ GenerateModel
  \/ GenerateFile

\* the TypeMapper and the parser over every explored declaration
SpecMapper == MapperInit /\ [][MapperNext]_vars

\* the schema operations and the backends over every hand-built schema
SpecSchema == SchemaInit /\ [][SchemaNext]_vars

\* ---------------------------------------------------- SchemaWatcher
\* the latest time explored, in seconds
MaxTime == 3

\* SchemaWatcher.debounce_seconds
debounce_seconds == 1

\* the schema files the input directory may hold and the schema classes a
\* file may declare
SchemaFiles == {"user.py", "order.py"}
SchemaNames == {"User", "Order"}

\* the schema classes the files of a directory declare
Declared(files) == UNION {files[f] : f \in DOMAIN files}

\* SchemaGenerationEngine.load_schemas_from_directory: every file is
\* imported, which registers its classes under their names
\* (SchemaRegistry.register); nothing leaves the registry
load_schemas_from_directory(files, registry) ==
  IF DOMAIN files = {} THEN Raise("ValueError")
  ELSE Return(registry \cup Declared(files))

\* SchemaGenerationEngine.generate_all: the schemas parsed and generated
\* are all the registered ones
generate_all(registry) ==
  IF registry = {} THEN Raise("ValueError") ELSE Return(registry)

\* SchemaWatcher.on_modified for a .py file of the directory: debounce,
\* then load_schemas_from_directory and generate_all, an exception of
\* either being caught
on_modified(w) ==
  IF w.now - w.last_run < debounce_seconds THEN [w EXCEPT !.ran = FALSE]
  ELSE LET loaded == load_schemas_from_directory(w.files, w.registry)
           generated == IF loaded.raised THEN loaded
                        ELSE generate_all(loaded.value[1])
       IN [w EXCEPT !.last_run = w.now,
                    !.registry = IF loaded.raised THEN @ ELSE loaded.value[1],
                    !.generated = IF generated.raised THEN @ ELSE generated.value[1],
                    !.ran = ~generated.raised]

\* the watch command: the initial generation over a directory, then the
\* observer starts; time.time() is far from the initial last_run of 0
WatchInit ==
  /\ python_type = Builtin("str")
  /\ field_info = None
  /\ schema = NoSchema
  /\ call = Call("none", "", None)
  /\ outcome = NoCall
  /\ \E present \in SUBSET SchemaFiles :
       \E files \in [present -> SUBSET SchemaNames] :
         /\ Declared(files) # {}
         /\ watcher = [files |-> files, registry |-> Declared(files),
                       generated |-> Declared(files), last_run |-> 0,
                       now |-> debounce_seconds, ran |-> TRUE]

\* the event handler called after a change of the directory
Handle(handler, files) ==
  /\ watcher' = on_modified([watcher EXCEPT !.files = files])
  /\ call' = Call(handler, "", None)
  /\ outcome' = Return(None)
  /\ UNCHANGED <<python_type, field_info, schema>>

\* a schema file is deleted: SchemaWatcher.on_deleted
OnDeleted ==
  \E f \in DOMAIN watcher.files :
    Handle("on_deleted", [g \in DOMAIN watcher.files \ {f} |-> watcher.files[g]])

\* a schema file is rewritten with other classes: SchemaWatcher.on_modified
OnModified ==
  \E f \in DOMAIN watcher.files, names \in SUBSET SchemaNames :
    /\ names # watcher.files[f]
    /\ Handle("on_modified", [watcher.files EXCEPT ![f] = names])

\* a schema file appears: SchemaWatcher.on_created
OnCreated ==
  \E f \in SchemaFiles \ DOMAIN watcher.files, names \in SUBSET SchemaNames :
    Handle("on_created",
           [g \in DOMAIN watcher.files \cup {f} |->
              IF g = f THEN names ELSE watcher.files[g]])

\* a second passes
Tick ==
  /\ watcher.now < MaxTime
  /\ watcher' = [watcher EXCEPT !.now = @ + 1]
  /\ UNCHANGED <<python_type, field_info, schema, call, outcome>>

WatchNext ==
  \/ OnDeleted
  \/ OnModified
  \/ OnCreated
  \/ Tick

\* the watcher over every sequence of changes of a directory of two files
SpecWatch == WatchInit /\ [][WatchNext]_vars

\* ------------------------------------------------ Avro field types
\* the members of a hand-built union or tuple
AvroMembers ==
  {USRField("m_str", FT_STRING), USRField("m_int", FT_INTEGER),
   [USRField("m_small", FT_INTEGER) EXCEPT
      !.min_value = Some(0), !.max_value = Some(9)],
   USRField("m_at", FT_DATETIME), NestedRef("m_other", "Other")}

\* the member lists: at most MaxFields members
AvroMemberLists == UNION {[1..n -> AvroMembers] : n \in 0..MaxFields}

\* the fields handed to the Avro generator, optional or required
AvroFields ==
  {[f EXCEPT !.optional = optional] :
     optional \in BOOLEAN,
     f \in {[USRField("flexible", type) EXCEPT !.union_types = members] :
              type \in {FT_UNION, FT_TUPLE}, members \in AvroMemberLists}
           \cup {USRField("value", FT_STRING), USRField("count", FT_INTEGER),
                 [USRField("count", FT_INTEGER) EXCEPT !.max_value = Some(9)],
                 USRField("at", FT_DATETIME), USRField("tags", FT_LIST),
                 USRField("kind", FT_ENUM), NestedRef("parent", "Other")}}

AvroInit ==
  /\ python_type = Builtin("str")
  /\ field_info = None
  /\ schema \in {USRSchema("NullOrderTest", <<f>>, <<>>, <<>>) : f \in AvroFields}
  /\ call = Call("none", "", None)
  /\ outcome = NoCall
  /\ watcher = NoWatcher

\* AvroGenerator()._generate_field_definition(schema.fields[0])
GenerateFieldDefinition ==
  /\ schema.fields # <<>> /\ Idle
  /\ call' = Call("_generate_field_definition", "avro", None)
  /\ outcome' = Return(_generate_field_definition(schema.fields[1]))
  /\ UNCHANGED <<python_type, field_info, schema, watcher>>

AvroNext ==
  \/ GenerateFieldDefinition
  \/ GenerateFile

\* the Avro generator over every hand-built field
SpecAvro == AvroInit /\ [][AvroNext]_vars

\* ---------------------------------------------- Protobuf field types
\* the bounds explored, in ascending order: -2^63, -2^31 - 1, -2^31, -1, 0,
\* 1, 2^31 - 1, 2^31, 2^32 - 1, 2^32, 2^63 - 1
ExploredInts ==
  <<BigInt(TRUE, <<32768, 0, 0, 0>>), BigInt(TRUE, <<0, 0, 32768, 1>>),
    BigInt(TRUE, <<0, 0, 32768, 0>>), BigInt(TRUE, <<0, 0, 0, 1>>),
    BigInt(FALSE, <<0, 0, 0, 0>>), BigInt(FALSE, <<0, 0, 0, 1>>),
    BigInt(FALSE, <<0, 0, 32767, 65535>>), BigInt(FALSE, <<0, 0, 32768, 0>>),
    BigInt(FALSE, <<0, 0, 65535, 65535>>), BigInt(FALSE, <<0, 1, 0, 0>>),
    BigInt(FALSE, <<32767, 65535, 65535, 65535>>)>>

\* a declared bound, or none
BoundValues == {None} \cup {Some(ExploredInts[i]) : i \in DOMAIN ExploredInts}

\* the fields handed to the Protobuf generator
ProtoFields ==
  {[USRField("age", type) EXCEPT
      !.min_value = min_value, !.max_value = max_value, !.optional = optional] :
     type \in {FT_INTEGER, FT_FLOAT}, min_value \in BoundValues,
     max_value \in BoundValues, optional \in BOOLEAN}

ProtoInit ==
  /\ python_type = Builtin("int")
  /\ field_info = None
  /\ schema \in {USRSchema("TestUser", <<f>>, <<>>, <<>>) : f \in ProtoFields}
  /\ call = Call("none", "", None)
  /\ outcome = NoCall
  /\ watcher = NoWatcher

\* ProtobufGenerator()._get_protobuf_type(schema.fields[0])
GetProtobufType ==
  /\ schema.fields # <<>> /\ Idle
  /\ call' = Call("_get_protobuf_type", "protobuf", None)
  /\ outcome' = Return(_get_protobuf_type(schema.fields[1]))
  /\ UNCHANGED <<python_type, field_info, schema, watcher>>

ProtoNext ==
  \/ GetProtobufType
  \/ GenerateFile

\* the Protobuf generator over every explored pair of bounds
SpecProto == ProtoInit /\ [][ProtoNext]_vars

\* ------------------------------------------- rendering of typed fields
\* hand-built fields of the types that make a Python backend import a module
TypedFieldPool ==
  {USRField("value", FT_STRING), USRField("at", FT_DATETIME),
   USRField("id", FT_UUID),
   [USRField("amounts", FT_LIST) EXCEPT
      !.inner_type = Some(USRField("amounts_item", FT_DECIMAL))]}

\* what the @Schema decorator collects from PydanticMeta and SQLAlchemyMeta
CustomCodes ==
  {<<>>,
   <<Entry("pydantic", <<Entry("raw_code", "validator"),
                         Entry("methods", "method")>>)>>,
   <<Entry("pydantic", <<Entry("raw_code", ""), Entry("methods", "method")>>)>>,
   <<Entry("pydantic", <<>>)>>,
   <<Entry("sqlalchemy", <<Entry("raw_code", "validator")>>)>>}

TypedFieldLists ==
  {fs \in UNION {[1..n -> TypedFieldPool] : n \in 0..MaxFields} :
     \A i, j \in DOMAIN fs : i # j => fs[i].name # fs[j].name}

RenderInit ==
  /\ python_type = Builtin("str")
  /\ field_info = None
  /\ schema \in {USRSchema("Event", fs, vs, cc) :
                   fs \in TypedFieldLists,
                   vs \in {<<>>, <<Entry(V_b, <<"id">>), Entry(V_a_b, <<>>)>>,
                           <<Entry(V_aB_b, <<"value">>)>>},
                   cc \in CustomCodes}
  /\ call = Call("none", "", None)
  /\ outcome = NoCall
  /\ watcher = NoWatcher

RenderNext ==
  \/ GenerateModel
  \/ GenerateFile
  \/ GenerateIndex

\* the backends over every schema of typed fields, calls repeated
SpecRender == RenderInit /\ [][RenderNext]_vars

\* ------------------------------------------- dataclass field order
\* hand-built fields of every way a dataclass field gets, or misses, a
\* default
DataclassFieldPool ==
  {USRField("name", FT_STRING),
   [USRField("count", FT_INTEGER) EXCEPT !.default = Some(1)],
   [USRField("note", FT_STRING) EXCEPT !.optional = TRUE],
   USRField("at", FT_DATETIME),
   [USRField("day", FT_DATE) EXCEPT !.auto_now_add = TRUE],
   [USRField("stamp", FT_STRING) EXCEPT !.auto_now = TRUE]}

DataclassFieldLists ==
  {fs \in UNION {[1..n -> DataclassFieldPool] : n \in 0..MaxFields} :
     \A i, j \in DOMAIN fs : i # j => fs[i].name # fs[j].name}

DataclassInit ==
  /\ python_type = Builtin("str")
  /\ field_info = None
  /\ schema \in {USRSchema("Event", fs, vs, <<>>) :
                   fs \in DataclassFieldLists,
                   vs \in {<<>>, <<Entry(V_b, <<"stamp", "count", "name">>)>>}}
  /\ call = Call("none", "", None)
  /\ outcome = NoCall
  /\ watcher = NoWatcher

DataclassNext ==
  \/ GenerateModel
  \/ GenerateFile

\* the dataclasses backend over every schema of defaulted and required fields
SpecDataclass == DataclassInit /\ [][DataclassNext]_vars

\* ------------------------------------------- field validation alone
\* hand-built fields combining what the six checks of USRField.validate read
ValidatedTypes == {FT_STRING, FT_INTEGER, FT_LIST, FT_TUPLE, FT_ENUM}

BoundChoices == {"none", "min", "max"}

ValidatedFields ==
  {[USRField("value", type) EXCEPT
      !.primary_key = primary_key, !.optional = optional,
      !.inner_type = IF inner THEN Some(USRField("value_item", FT_STRING))
                     ELSE None,
      !.min_value = IF value = "min" THEN Some(0) ELSE None,
      !.max_value = IF value = "max" THEN Some(9) ELSE None,
      !.min_length = IF length = "min" THEN Some(0) ELSE None,
      !.max_length = IF length = "max" THEN Some(9) ELSE None,
      !.enum_name = enum_name,
      !.enum_values = IF members THEN <<"red">> ELSE <<>>,
      !.foreign_key = foreign_key, !.relationship = relationship] :
     type \in ValidatedTypes, primary_key \in BOOLEAN, optional \in BOOLEAN,
     inner \in BOOLEAN, value \in BoundChoices, length \in BoundChoices,
     enum_name \in {None, Some(""), Some("Kind")}, members \in BOOLEAN,
     foreign_key \in {None, Some("users.id")},
     relationship \in {None, Some("many_to_one")}}

FieldInit ==
  /\ python_type = Builtin("str")
  /\ field_info = None
  /\ schema \in {USRSchema(SelfName, <<f>>, <<>>, <<>>) : f \in ValidatedFields}
  /\ call = Call("none", "", None)
  /\ outcome = NoCall
  /\ watcher = NoWatcher

\* schema.fields[0].validate()
ValidateField ==
  /\ schema.fields # <<>> /\ Idle
  /\ call' = Call("field_validate", "", None)
  /\ outcome' = Return(USRField_validate(schema.fields[1]))
  /\ UNCHANGED <<python_type, field_info, schema, watcher>>

FieldNext ==
  \/ ValidateField
  \/ Validate

\* the validator over every hand-built field
SpecField == FieldInit /\ [][FieldNext]_vars

\* =========================================================== properties
Range(seq) == {seq[i] : i \in DOMAIN seq}

\* result holds exactly the fields satisfying Q, each once, in the order of
\* fields (field names are unique within a schema)
IsOrderedSelection(result, fields, Q(_)) ==
  /\ \A i \in DOMAIN fields : Q(fields[i]) <=> fields[i] \in Range(result)
  /\ Len(result) = Cardinality({i \in DOMAIN fields : Q(fields[i])})
  /\ \A p, q \in DOMAIN result :
       p < q => \E i, j \in DOMAIN fields :
                  i < j /\ fields[i] = result[p] /\ fields[j] = result[q]

\* the last call asked for a variant the schema does not declare
UndeclaredVariantRequested(c) ==
  c.variant # None /\ ~HasKey(schema.variants, c.variant[1])

\* C1: for every backend, generate_model(schema, v) with v any string that
\* is not a declared variant name, the empty string included, raises; it
\* never returns a rendering.
C1_UndeclaredVariantRaises ==
  (call.op = "generate_model" /\ UndeclaredVariantRequested(call))
     => outcome.raised

\* C2: get_variant_fields(v) for v not a key of schema.variants raises
\* KeyError, returns no field list and leaves the schema unchanged.
C2_UnknownVariantKeyError ==
  [][(call'.op = "get_variant_fields" /\ UndeclaredVariantRequested(call'))
       => /\ outcome'.raised
          /\ outcome'.exc = "KeyError"
          /\ outcome'.value = <<>>
          /\ schema' = schema]_vars

C2_Witness ==
  /\ call.op = "get_variant_fields"
  /\ UndeclaredVariantRequested(call)
  /\ outcome.raised
  /\ schema.variants # <<>>
  /\ Len(schema.fields) >= 2

HasError(issues) == \E i \in DOMAIN issues : issues[i].severity = "error"

\* C3: for every backend, generate_file(schema) raises whenever
\* schema.validate() contains an error-severity issue; it never returns
\* rendered text for such a schema.
C3_InvalidSchemaNotRendered ==
  (call.op = "generate_file" /\ HasError(USRSchema_validate(schema)))
     => outcome.raised

\* C4: get_variant_fields(v) for a declared variant v returns exactly the
\* fields whose name is listed under v, each once, in field-declaration
\* order, whatever the order of the names in the variant's list.
C4_VariantProjection ==
  (call.op = "get_variant_fields" /\ HasKey(schema.variants, call.variant[1]))
     => /\ ~outcome.raised
        /\ LET Listed(f) == InSeq(f.name, Lookup(schema.variants, call.variant[1]))
           IN IsOrderedSelection(outcome.value[1], schema.fields, Listed)

C4_Witness ==
  /\ call.op = "get_variant_fields"
  /\ HasKey(schema.variants, call.variant[1])
  /\ Lookup(schema.variants, call.variant[1]) = <<"parent", "value">>
  /\ ~outcome.raised
  /\ Len(outcome.value[1]) = 2
  /\ outcome.value[1][1].name = "value"
  /\ outcome.value[1][2].name = "parent"
  /\ Len(schema.fields) = 3

\* the declaration under its Annotated wrapper, if it has one
BaseDeclaration ==
  IF get_origin(python_type) = "Annotated" THEN python_type.args[1]
  ELSE python_type

\* a union of exactly two members one of which is the null type
IsNullableUnion(t) == t.k = "union" /\ Len(t.args) = 2 /\ NoneIn(t.args)

\* a union of more than two members, or of two non-null members
IsProperUnion(t) == t.k = "union" /\ ~IsNullableUnion(t)

FieldBuilt == call.op = "create_usr_field_from_python" /\ ~outcome.raised

\* C5: a field built from a union of exactly two members, one of them the
\* null type, has optional true, inner_type the mapping of the non-null
\* member, and its own type equal to inner_type.type.
C5_OptionalTypeIsInnerType ==
  (FieldBuilt /\ IsNullableUnion(BaseDeclaration))
     => LET f == outcome.value[1]
            mapped == create_usr_field_from_python(
                        "link_inner", NonNone(BaseDeclaration.args), None)
        IN /\ f.optional
           /\ f.inner_type = mapped.value
           /\ f.type = f.inner_type[1].type

RECURSIVE UsesOptionalTag(_)
\* the field, its inner_type or a member of its union_types, at any depth,
\* carries the OPTIONAL type tag
UsesOptionalTag(f) ==
  \/ f.type = FT_OPTIONAL
  \/ f.inner_type # None /\ UsesOptionalTag(f.inner_type[1])
  \/ \E i \in DOMAIN f.union_types : UsesOptionalTag(f.union_types[i])

\* C6: the TypeMapper never produces the OPTIONAL type tag, neither as the
\* result of python_type_to_usr nor as the type of a built field, of its
\* inner_type or of a member of its union_types at any depth.
C6_NoOptionalTag ==
  /\ (call.op = "python_type_to_usr" /\ ~outcome.raised)
        => outcome.value[1] # FT_OPTIONAL
  /\ FieldBuilt => ~UsesOptionalTag(outcome.value[1])

\* C7: a union declaration with more than two members, or with two non-null
\* members, maps to a field of type UNION whose union_types holds the mapping
\* of each member in declared order, in the typing.Union spelling and in the
\* X | Y spelling alike.
C7_UnionMapsToUnion ==
  (FieldBuilt /\ IsProperUnion(BaseDeclaration))
     => LET f == outcome.value[1]
            mapped == MapMembers("link", BaseDeclaration.args, 0)
        IN /\ f.type = FT_UNION
           /\ f.union_types = mapped.value[1]

\* C8: classification is total: python_type_to_usr and
\* create_usr_field_from_python return a result and never raise, and a
\* declaration no earlier rule matches is classified NESTED_SCHEMA with
\* nested_schema set to its name.
C8_ClassificationTotal ==
  /\ call.op \in {"python_type_to_usr", "create_usr_field_from_python"}
        => ~outcome.raised
  /\ (call.op = "python_type_to_usr" /\ python_type.k = "class")
        => outcome = Return(FT_NESTED_SCHEMA)
  /\ (call.op = "create_usr_field_from_python" /\ python_type.k = "class")
        => /\ outcome.value[1].type = FT_NESTED_SCHEMA
           /\ outcome.value[1].nested_schema = Some(python_type.nm)

\* C9: get_self_referencing_fields() returns, in field-declaration order,
\* exactly the fields f with f.nested_schema = schema.name, or with f.type
\* in {LIST, SET, FROZENSET} and f.inner_type.nested_schema = schema.name.
C9_SelfReferencingFields ==
  call.op = "get_self_referencing_fields"
     => /\ ~outcome.raised
        /\ LET Qualifies(f) ==
                 \/ f.nested_schema = Some(schema.name)
                 \/ /\ f.type \in {FT_LIST, FT_SET, FT_FROZENSET}
                    /\ f.inner_type # None
                    /\ f.inner_type[1].nested_schema = Some(schema.name)
           IN IsOrderedSelection(outcome.value[1], schema.fields, Qualifies)

C9_Witness ==
  /\ call.op = "get_self_referencing_fields"
  /\ Len(schema.fields) = 3
  /\ schema.fields[1].name = "value"
  /\ Len(outcome.value[1]) = 2
  /\ outcome.value[1][1].name = "children"
  /\ outcome.value[1][1].type = FT_LIST
  /\ outcome.value[1][2].name = "parent"

\* a declaration that is the enclosing schema, by class or by name
NamesSelf(t) == t = Class(SelfName) \/ t = Str(SelfName)

\* the enclosing schema directly or through one list/set/frozenset level
NamesSelfWithinOneLevel(t) ==
  \/ NamesSelf(t)
  \/ /\ t.k = "generic"
     /\ t.nm \in {"list", "set", "frozenset"}
     /\ Len(t.args) = 1
     /\ NamesSelf(t.args[1])

\* C10: a field built from a declaration naming its enclosing schema S,
\* directly (S, S | None) or through one container level (list, set or
\* frozenset of S, also when that container is declared optional), is
\* returned by get_self_referencing_fields() of the parsed schema.
C10_SelfReferenceDetected ==
  ( /\ call.op = "get_self_referencing_fields"
    /\ schema.name = SelfName
    /\ \/ NamesSelfWithinOneLevel(python_type)
       \/ /\ IsNullableUnion(python_type)
          /\ NamesSelfWithinOneLevel(NonNone(python_type.args)) )
     => \E i \in DOMAIN outcome.value[1] : outcome.value[1][i].name = "link"

\* the places <<j, k>> where variant j lists at position k a name that no
\* field of the schema has
DanglingReferences ==
  {r \in UNION {{<<j, k>> : k \in DOMAIN schema.variants[j].value} :
                 j \in DOMAIN schema.variants} :
     \A i \in DOMAIN schema.fields :
       schema.fields[i].name # schema.variants[r[1]].value[r[2]]}

\* variant-then-name declaration order of such places
RefBefore(r, s) == r[1] < s[1] \/ (r[1] = s[1] /\ r[2] < s[2])

IsSchemaLevel(issue) == issue.field_name = None

IssuesSaying(text) ==
  {i \in DOMAIN outcome.value[1] : outcome.value[1][i].message[1] = text}

\* a check whose condition holds reports once, with its severity, on the
\* field; a check whose condition does not hold reports nothing
CheckReports(condition, severity, text) ==
  IF condition
    THEN /\ Cardinality(IssuesSaying(text)) = 1
         /\ \A i \in IssuesSaying(text) :
              /\ outcome.value[1][i].severity = severity
              /\ outcome.value[1][i].field_name = Some(schema.fields[1].name)
    ELSE IssuesSaying(text) = {}

\* C12: USRField.validate() evaluates its six checks independently: an issue
\* for each check whose condition holds and none for a check whose condition
\* does not hold; warning for primary key and optional, for LIST/SET/FROZENSET
\* without inner type, for min/max value on a non-numeric type and for min/max
\* length on a type that is not string, bytes, list, set or frozenset; error
\* for an enum name with no enum values; info for a foreign key without
\* relationship.
C12_IndependentChecks ==
  call.op = "field_validate"
     => LET f == schema.fields[1]
            Set(v) == v # None /\ v # Some("")
            conditions ==
              <<f.primary_key /\ f.optional,
                f.type \in {FT_LIST, FT_SET, FT_FROZENSET} /\ f.inner_type = None,
                (f.min_value # None \/ f.max_value # None)
                  /\ f.type \notin {FT_INTEGER, FT_FLOAT, FT_DECIMAL},
                (f.min_length # None \/ f.max_length # None)
                  /\ f.type \notin {FT_STRING, FT_BYTES, FT_LIST, FT_SET,
                                    FT_FROZENSET},
                Set(f.enum_name) /\ f.enum_values = <<>>,
                Set(f.foreign_key) /\ ~Set(f.relationship)>>
        IN /\ CheckReports(conditions[1], "warning",
                "Field is marked as primary_key but is also optional")
           /\ CheckReports(conditions[2], "warning",
                "{} field has no inner_type specified")
           /\ CheckReports(conditions[3], "warning",
                "min_value/max_value set on non-numeric field (type={})")
           /\ CheckReports(conditions[4], "warning",
                "min_length/max_length set on non-string/non-list field (type={})")
           /\ CheckReports(conditions[5], "error",
                "enum_name '{}' is set but enum_values is empty")
           /\ CheckReports(conditions[6], "info",
                "foreign_key is set but no relationship is defined")
           /\ Len(outcome.value[1])
                = Cardinality({c \in 1..6 : conditions[c]})

\* a TUPLE field on which five checks report at once, in all three severities
C12_Witness ==
  /\ call.op = "field_validate"
  /\ schema.fields[1].type = FT_TUPLE
  /\ Len(outcome.value[1]) = 5
  /\ {outcome.value[1][i].severity : i \in DOMAIN outcome.value[1]}
       = {"warning", "error", "info"}

\* a parametrized tuple
IsTupleDeclaration(t) == t.k = "generic" /\ t.nm = "tuple" /\ t.args # <<>>

\* C13: a parametrized tuple whose second of two elements is the variadic
\* marker is mapped to type LIST with inner_type mapped from the first
\* element, never to TUPLE; every other parametrized tuple is mapped to type
\* TUPLE with union_types holding the mapping of each positional element in
\* declared order.
C13_TupleMapping ==
  (call.op = "create_usr_field_from_python" /\ IsTupleDeclaration(BaseDeclaration))
     => /\ ~outcome.raised
        /\ LET f == outcome.value[1]
               args == BaseDeclaration.args
           IN IF Len(args) = 2 /\ args[2] = Ellipsis
                THEN /\ f.type = FT_LIST
                     /\ f.inner_type =
                          create_usr_field_from_python("link_item", args[1], None).value
                     /\ f.union_types = <<>>
                ELSE /\ f.type = FT_TUPLE
                     /\ f.union_types = MapMembers("link", args, 0).value[1]
                     /\ f.inner_type = None

\* the attributes of a field that Annotated metadata may set
FoldedAttributes ==
  {"description", "metadata", "min_length", "max_length", "min_value",
   "max_value", "regex_pattern"}

\* the declaration object's value of a constraint of the field
DeclaredConstraint(info, c) == IF c = "regex_pattern" THEN info.regex ELSE info[c]

\* the value a metadata object gives the constraint it feeds
ItemValue(item) ==
  IF ConstraintAttr(item.key) = "regex_pattern" THEN item.sval ELSE item.ival

\* the positions of the metadata items satisfying Test
Positions(meta, Test(_)) == {i \in DOMAIN meta : Test(meta[i])}

\* Some(Value of the first metadata item satisfying Test), None without one
FirstValue(meta, Test(_), Value(_)) ==
  IF Positions(meta, Test) = {} THEN None
  ELSE Some(Value(meta[CHOOSE i \in Positions(meta, Test) :
                          \A j \in Positions(meta, Test) : i <= j]))

\* f is the field plain, built for T with the declaration object info, with
\* the metadata items meta folded in as the claim says
MetadataFolded(f, plain, info, meta) ==
  /\ \A a \in (DOMAIN f) \ FoldedAttributes : f[a] = plain[a]
  /\ f.description =
       IF info.description # None THEN info.description
       ELSE FirstValue(meta, LAMBDA m : m.mk = "text", LAMBDA m : m.sval)
  /\ DOMAIN f.metadata =
       DOMAIN info.metadata \cup {meta[i].key : i \in Positions(meta, LAMBDA m : m.mk = "map")}
  /\ \A key \in DOMAIN f.metadata :
       LET maps == Positions(meta, LAMBDA m : m.mk = "map" /\ m.key = key) IN
       IF maps = {} THEN f.metadata[key] = info.metadata[key]
       ELSE \E i \in maps : /\ \A j \in maps : j <= i
                            /\ f.metadata[key] = meta[i].sval
  /\ \A c \in FoldedAttributes \ {"description", "metadata"} :
       f[c] = IF DeclaredConstraint(info, c) # None THEN DeclaredConstraint(info, c)
              ELSE FirstValue(meta,
                     LAMBDA m : m.mk = "obj" /\ ConstraintAttr(m.key) = c,
                     ItemValue)

\* C14: for a declaration Annotated[T, m1..mk] with a declaration object the
\* field is classified as T; description is the declaration object's when it
\* supplies one and otherwise the first text item; every map item is merged
\* into metadata; each constraint keeps the declaration object's value when
\* the declaration set it, a metadata object's attribute being used only when
\* the declaration did not set that constraint.
C14_AnnotatedMetadata ==
  [][(call'.op = "create_usr_field_from_python"
        /\ python_type.k = "annotated" /\ field_info # None)
       => LET plain == create_usr_field_from_python("link", python_type.args[1],
                                                    field_info)
          IN /\ outcome'.raised = plain.raised
             /\ ~outcome'.raised
                  => MetadataFolded(outcome'.value[1], plain.value[1],
                                    field_info[1], python_type.meta)]_vars

C14_Witness ==
  /\ call.op = "create_usr_field_from_python"
  /\ python_type.k = "annotated"
  /\ Len(python_type.meta) = 5
  /\ field_info # None
  /\ ~outcome.raised
  /\ outcome.value[1].description = Some("declared")
  /\ outcome.value[1].min_value = Some(1)
  /\ outcome.value[1].max_length = Some(5)
  /\ outcome.value[1].regex_pattern = Some("p")

\* C15: create_usr_field_from_python is pure with respect to its inputs: after
\* the call the declaration object (field_info), its metadata map and its
\* exclude/include lists included, is unchanged.
C15_DeclarationObjectUnchanged ==
  [][call'.op = "create_usr_field_from_python" => field_info' = field_info]_vars

\* C16: for every backend, two calls of generate_file (or generate_model) on
\* the same unchanged schema return the same text, the generation timestamp
\* apart; the output never depends on set/hash iteration order or on state
\* left by earlier calls.
C16_Idempotent ==
  [][(call.op \in {"generate_file", "generate_model"} /\ call' = call
        /\ schema' = schema)
       => outcome' = outcome]_vars

\* C17: for every backend, generate_file(schema) contains the rendering of
\* the base type followed by the rendering of every variant declared in
\* schema.variants, each exactly once, in the variants' declaration order.
C17_FileHoldsBaseThenVariants ==
  (call.op = "generate_file" /\ ~outcome.raised)
     => LET models == outcome.value[1].models IN
        /\ Len(models) = 1 + Len(schema.variants)
        /\ models[1].model_name = <<schema.name>>
        /\ Len(models[1].fields) = Len(schema.fields)
        /\ Range(models[1].fields) = {f.name : f \in Range(schema.fields)}
        /\ \A j \in DOMAIN schema.variants :
             /\ models[j + 1].model_name =
                  _variant_to_class_name(schema.name, schema.variants[j].key)
             /\ LET Listed(f) == InSeq(f.name, schema.variants[j].value)
                    kept == SelectSeq(schema.fields, Listed)
                IN /\ Len(models[j + 1].fields) = Len(kept)
                   /\ Range(models[j + 1].fields) = {f.name : f \in Range(kept)}

\* the fragments of schema.custom_code, whatever the target
CustomFragments ==
  {e.value : e \in UNION {Range(t.value) : t \in Range(schema.custom_code)}}
    \ {""}

\* a rendering holds none of the schema's custom-code fragments
FreeOfCustomCode(rendering) ==
  \A e \in Range(rendering.custom_code) : e.value \notin CustomFragments

\* C18: no variant rendering produced by generate_file or by
\* generate_model(schema, variant) contains a custom-code fragment (raw
\* code, methods) of schema.custom_code; the fragments go into the base
\* rendering only.
C18_CustomCodeOnlyInBase ==
  /\ (call.op = "generate_file" /\ ~outcome.raised)
       => \A j \in DOMAIN outcome.value[1].models :
            j > 1 => FreeOfCustomCode(outcome.value[1].models[j])
  /\ (call.op = "generate_model" /\ Truthy(call.variant) /\ ~outcome.raised)
       => FreeOfCustomCode(outcome.value[1])

\* a file whose base model holds both fragments and which has variants
C18_Witness ==
  /\ call.op = "generate_file" /\ ~outcome.raised
  /\ Len(outcome.value[1].models) > 1
  /\ Len(outcome.value[1].models[1].custom_code) = 2
  /\ CustomFragments # {}

RECURSIVE PascalCase(_, _)
\* snake_case to PascalCase, character by character: an underscore is
\* dropped and starts a token, the first character of a token is put in
\* upper case and its other characters in lower case
PascalCase(chars, at_start) ==
  IF chars = <<>> THEN <<>>
  ELSE IF Head(chars) = "_" THEN PascalCase(Tail(chars), TRUE)
  ELSE <<IF at_start THEN Upper(Head(chars)) ELSE Lower(Head(chars))>>
         \o PascalCase(Tail(chars), FALSE)

\* the type name of variant v of the schema
VariantTypeName(v) == <<schema.name>> \o PascalCase(v, TRUE)

DeclaredVariantTypeNames ==
  {VariantTypeName(schema.variants[j].key) : j \in DOMAIN schema.variants}

\* C19: every backend names variant v of schema S as S followed by v split
\* on '_' with each token capitalized and the tokens joined: the name is the
\* same in generate_model, in generate_file and in the index that
\* re-exports the names, whatever the backend.
C19_VariantTypeName ==
  /\ (call.op = "generate_model" /\ Truthy(call.variant) /\ ~outcome.raised)
       => outcome.value[1].model_name = VariantTypeName(call.variant[1])
  /\ (call.op = "generate_file" /\ ~outcome.raised)
       => \A j \in DOMAIN outcome.value[1].models :
            j > 1 => outcome.value[1].models[j].model_name =
                       VariantTypeName(schema.variants[j - 1].key)
  /\ (call.op = "generate_index" /\ outcome.value[1] # None)
       => LET names == Range(outcome.value[1][1]) IN
          /\ call.backend # "sqlalchemy" => DeclaredVariantTypeNames \subseteq names
          /\ names \subseteq
               LET types == {<<schema.name>>} \cup DeclaredVariantTypeNames IN
               types \cup {n \o <<"Schema">> : n \in types} \cup {<<"Base">>}

\* the zod index re-exporting the variant "aB__b" of Event as EventAbB
C19_Witness ==
  /\ call.op = "generate_index" /\ call.backend = "zod"
  /\ HasKey(schema.variants, V_aB_b)
  /\ <<"Event", "A", "b", "B">> \in Range(outcome.value[1][1])

\* the positions of the null branch in a union
NullBranches(union) ==
  {i \in DOMAIN union.of : union.of[i] = AvroStr("null")}

Place(x) == CHOOSE i \in DOMAIN ExploredInts : ExploredInts[i] = x

\* a bound is declared and lies at or below (at or above) a limit
DeclaredAtMost(bound, limit) == bound # None /\ Place(bound[1]) <= Place(limit)
DeclaredAtLeast(bound, limit) == bound # None /\ Place(bound[1]) >= Place(limit)

\* C21: an INTEGER field with a declared lower bound >= 0 maps to uint32
\* when its declared upper bound is at most 2^32 - 1 and to uint64
\* otherwise; any other INTEGER field maps to int32 when its declared upper
\* bound is at most 2^31 - 1 and to int64 otherwise.
C21_IntegerWidth ==
  (call.op = "_get_protobuf_type" /\ schema.fields[1].type = FT_INTEGER)
     => LET f == schema.fields[1]
            unsigned == DeclaredAtLeast(f.min_value, Zero)
        IN outcome.value[1] =
             CASE unsigned /\ DeclaredAtMost(f.max_value, UInt32Max) -> "uint32"
               [] unsigned /\ ~DeclaredAtMost(f.max_value, UInt32Max) -> "uint64"
               [] ~unsigned /\ DeclaredAtMost(f.max_value, Int32Max) -> "int32"
               [] OTHER -> "int64"

\* the age field of the test, 0 <= age <= 2^31, mapped to uint32
C21_Witness ==
  /\ call.op = "_get_protobuf_type" /\ schema.fields[1].type = FT_INTEGER
  /\ schema.fields[1].min_value = Some(Zero)
  /\ schema.fields[1].max_value = Some(BigInt(FALSE, <<0, 0, 32768, 0>>))
  /\ outcome.value[1] = "uint32"

\* the least and the greatest value of a Protobuf integer type
TypeMin(type) ==
  CASE type = "int32" -> BigInt(TRUE, <<0, 0, 32768, 0>>)
    [] type = "int64" -> BigInt(TRUE, <<32768, 0, 0, 0>>)
    [] OTHER -> Zero
TypeMax(type) ==
  CASE type = "int32" -> Int32Max
    [] type = "uint32" -> UInt32Max
    [] OTHER -> BigInt(FALSE, <<32767, 65535, 65535, 65535>>)

\* C29: when an INTEGER field declares min_value <= max_value, both within
\* the 64-bit range, the Protobuf integer type chosen for it can represent
\* every integer from min_value to max_value.
C29_TypeHoldsDeclaredRange ==
  (/\ call.op = "_get_protobuf_type" /\ schema.fields[1].type = FT_INTEGER
   /\ schema.fields[1].min_value # None /\ schema.fields[1].max_value # None
   /\ Place(schema.fields[1].min_value[1]) <= Place(schema.fields[1].max_value[1]))
     => /\ Place(TypeMin(outcome.value[1])) <= Place(schema.fields[1].min_value[1])
        /\ Place(schema.fields[1].max_value[1]) <= Place(TypeMax(outcome.value[1]))

\* the places of the statements of a kind in a file
StatementsOf(file, kind) ==
  {j \in DOMAIN file.statements : file.statements[j].key = kind}

\* a sequence of tokens holds the quoted name of the schema
HoldsForwardReference(tokens) ==
  \E j \in DOMAIN tokens :
    j + 2 <= Len(tokens) /\ SubSeq(tokens, j, j + 2) = Quoted(schema.name)

\* the fields that refer to their own schema, directly or as the elements
\* of a list, set or frozenset
SelfReferencingFields ==
  {i \in DOMAIN schema.fields :
     \/ schema.fields[i].nested_schema = Some(schema.name)
     \/ /\ schema.fields[i].type \in {FT_LIST, FT_SET, FT_FROZENSET}
        /\ schema.fields[i].inner_type # None
        /\ schema.fields[i].inner_type[1].nested_schema = Some(schema.name)}

\* C22: a file of PydanticGenerator.generate_file renders every
\* self-referencing field with the quoted name of the schema; when the
\* schema has a self-referencing field the file holds exactly one
\* `<Schema>.model_rebuild()` statement, after all its classes, and when it
\* has none the file holds no such statement.
C22_ForwardReferencesResolvedOnce ==
  (call.op = "generate_file" /\ call.backend = "pydantic" /\ ~outcome.raised)
     => LET file == outcome.value[1]
            rebuilds == StatementsOf(file, "model_rebuild")
        IN /\ \A i \in SelfReferencingFields :
                HoldsForwardReference(file.annotations[i])
           /\ SelfReferencingFields = {} => rebuilds = {}
           /\ SelfReferencingFields # {}
                => /\ Cardinality(rebuilds) = 1
                   /\ \A r \in rebuilds :
                        /\ file.statements[r].value = <<schema.name>>
                        /\ \A c \in StatementsOf(file, "class") : c < r

\* a schema with two self-referencing fields and a variant, rendered with
\* one model_rebuild() after its two classes
C22_Witness ==
  /\ call.op = "generate_file" /\ call.backend = "pydantic" /\ ~outcome.raised
  /\ Cardinality(SelfReferencingFields) = 2
  /\ Len(outcome.value[1].models) = 2
  /\ StatementsOf(outcome.value[1], "model_rebuild") = {3}

\* C23: parse_schema raises ValueError when the Variants class lists a
\* field name the schema does not declare, and returns no USRSchema: a
\* schema it returns has no such listing.
C23_DanglingVariantRejected ==
  (call.op = "parse_schema" /\ ~outcome.raised) => DanglingReferences = {}

\* C24: a parsed schema records in enums one entry for each enum type its
\* fields use: the enum's name and its (member name, member value) pairs in
\* declaration order.
C24_EnumsRecorded ==
  (call.op = "parse_schema" /\ ~outcome.raised)
     => \A i \in DOMAIN schema.fields :
          schema.fields[i].type = FT_ENUM
            => \E j \in DOMAIN schema.enums :
                 /\ Some(schema.enums[j].name) = schema.fields[i].enum_name
                 /\ [k \in DOMAIN schema.enums[j].values |->
                       schema.enums[j].values[k][2]] = schema.fields[i].enum_values

\* the variants a Variants class declares, in the order of its body: the
\* attributes that are lists and whose name has no leading underscore
DeclaredVariants(Variants) ==
  LET Public(a) == a.is_list /\ (a.key = <<>> \/ Head(a.key) # "_")
      attrs == IF Variants = None THEN <<>> ELSE SelectSeq(Variants[1], Public)
  IN [i \in DOMAIN attrs |-> Entry(attrs[i].key, attrs[i].value)]

\* C25: the variants of a parsed schema are in the order in which the
\* Variants class declares them: they are the declared variants of one of
\* the Variants classes explored, no two of which declare the same names.
C25_VariantsInDeclarationOrder ==
  (call.op = "parse_schema" /\ ~outcome.raised)
     => \E Variants \in VariantsClasses :
          schema.variants = DeclaredVariants(Variants)

\* C26: when a schema file is deleted, or a class removed from a file, and
\* the watcher runs the regeneration, no schema that the change removed
\* from the directory is among the schemas parsed and generated.
C26_RemovedSchemaNotRegenerated ==
  [][(call'.op \in {"on_deleted", "on_modified"} /\ watcher'.ran)
       => \A n \in Declared(watcher.files) \ Declared(watcher'.files) :
            n \notin watcher'.generated]_vars

\* the field of the schema that a rendered model shows under a name
FieldNamed(name) == CHOOSE f \in Range(schema.fields) : f.name = name

\* in a rendered model no field without a default comes after a field with
\* one
DefaultsLast(rendering) ==
  \A i, j \in DOMAIN rendering.fields :
    (i < j /\ RendersDefault(FieldNamed(rendering.fields[i])))
      => RendersDefault(FieldNamed(rendering.fields[j]))

\* C27: in every dataclass rendered by DataclassesGenerator, base and
\* variants, by generate_model and by generate_file, no field rendered
\* without a default value comes after a field rendered with one.
C27_DefaultsLast ==
  (call.backend = "dataclasses" /\ ~outcome.raised)
    => /\ call.op = "generate_model" => DefaultsLast(outcome.value[1])
       /\ call.op = "generate_file"
            => \A m \in Range(outcome.value[1].models) : DefaultsLast(m)

\* the declaration under Annotated and under `| None`
Undecorated(t) ==
  LET base == IF t.k = "annotated" THEN t.args[1] ELSE t IN
  IF IsNullableUnion(base) THEN NonNone(base.args) ELSE base

\* list[T], set[T] or frozenset[T]
IsParametrizedContainer(t) ==
  t.k = "generic" /\ t.nm \in {"list", "set", "frozenset"} /\ t.args # <<>>

RECURSIVE Shape(_)
\* what a field maps a declaration to, the names of the fields apart
Shape(f) ==
  [type |-> f.type, optional |-> f.optional, nested_schema |-> f.nested_schema,
   inner_type |-> IF f.inner_type = None THEN None
                  ELSE Some(Shape(f.inner_type[1])),
   union_types |-> [i \in DOMAIN f.union_types |-> Shape(f.union_types[i])]]

\* C28: a field the TypeMapper produces with type LIST, SET or FROZENSET
\* from a parametrized container, optional or not, has as inner_type the
\* mapping of the container's first type parameter, one container level
\* above the element.
C28_InnerTypeIsElement ==
  ( /\ call.op = "create_usr_field_from_python"
    /\ ~outcome.raised
    /\ outcome.value[1].type \in {FT_LIST, FT_SET, FT_FROZENSET}
    /\ IsParametrizedContainer(Undecorated(python_type)) )
    => LET element == create_usr_field_from_python(
                        "element", Undecorated(python_type).args[1], None)
       IN /\ ~element.raised
          /\ outcome.value[1].inner_type # None
          /\ Shape(outcome.value[1].inner_type[1]) = Shape(element.value[1])

\* C30: within one schema, distinct variant names yield distinct type names
\* and none of them is the name of the base type: generate_file never
\* defines the same type name twice.
C30_TypeNamesDistinct ==
  (call.op = "generate_file" /\ ~outcome.raised)
    => LET models == outcome.value[1].models IN
       \A i, j \in DOMAIN models :
         i # j => models[i].model_name # models[j].model_name

====
